---- MODULE Spec2Model ----
(***************************************************************************)
(* Model of the ozl-emails campaign engine: the rows of email_queue, the   *)
(* campaigns table, the stage (generate) task, the launch and retry-failed *)
(* planner tasks of the API service, the campaign-runner worker batches    *)
(* and the completion check run when a campaign is read.                   *)
(*                                                                         *)
(* Instants are whole seconds of UTC counted from a Monday 00:00 UTC; the  *)
(* configured zone is modelled by its standard offset from UTC.            *)
(*                                                                         *)
(* A task or a batch is a sequence of steps, one per store write.  The     *)
(* reads that open a task (the rows to plan and the commitments) are one   *)
(* step, as are the counts of the completion check, and the transmission   *)
(* call together with the finalize that follows it.  Store calls succeed   *)
(* unless an action says otherwise; generation and transmission may fail,  *)
(* and the worker's call of the renderer raises on every email, so that    *)
(* only an email whose body the operator wrote reaches the transmission.   *)
(* Of the admin surface the change of a campaign's status, the replacement *)
(* of its recipients and the edit of an email's body are modelled.         *)
(***************************************************************************)
EXTENDS Integers, Sequences, FiniteSets, TLC

VARIABLES
    now,          \* the wall clock, UTC seconds
    interval,     \* Config.INTERVAL_MINUTES, in seconds
    recipients,   \* rows of campaign_recipients, counted per campaign
    aiDown,       \* the generator fails on every call
    campStatus,   \* campaigns.status, per campaign
    campTotal,    \* campaigns.total_recipients, per campaign
    queue,        \* email_queue rows, by id (created_at order = id order)
    nextId,       \* next id the store hands out
    stage,        \* the generate task slots
    plan,         \* the launch / retry-failed task slots
    planRuns,     \* number of planner tasks started so far
    wk,           \* the campaign-runner workers
    rec,          \* the completion check in flight
    hist,         \* per row: successful claims, transmissions, mark_sent calls
    track,        \* whether the history (hist, rec.ret) is recorded
    DISABLE_WORKING_HOURS   \* the configuration flag of both services

vars == <<now, interval, recipients, aiDown, campStatus, campTotal, queue,
          nextId, stage, plan, planRuns, wk, rec, hist, track,
          DISABLE_WORKING_HOURS>>

\* the configuration and the environment, fixed along a behaviour
env == <<interval, recipients, aiDown, track, DISABLE_WORKING_HOURS>>

-----------------------------------------------------------------------------
(* Bounds of the model *)

\* ids the store hands out to staged rows
MaxItems == 2

\* planner tasks (launch or retry-failed) started in a behaviour
MaxPlanRuns == 2

\* clock ticks in a behaviour
MaxTicks == 1

-----------------------------------------------------------------------------
(* Program constants *)

BATCH_SIZE == 20

CIRCUIT_BREAKER_THRESHOLD == 10

WORKING_HOUR_START == 9

WORKING_HOUR_END == 17

JITTER_SECONDS_MAX == 30

\* INTERVAL_MINUTES = 3.5, in seconds
IntervalSecs == 210

\* len(BASE_DOMAINS)
NumDomains == 28

HourSecs == 60 * 60

DaySecs == 24 * HourSecs

\* America/Los_Angeles, standard time
UtcOffsetSecs == 0 - 28800

\* None in a numeric column
NULL == 0 - 1

\* None in from_email
NoSender == << >>

\* None in error_message
NoError == "null"

Campaigns == {"c1", "c2"}

Sender(c) == IF c = "c1" THEN "todd_vitzthum" ELSE "jeff_richmond"

StageTasks == {"s1", "s2"}

PlanTasks == {"p1", "p2"}

Workers == {"w1", "w2"}

\* values of random.random() * JITTER_SECONDS_MAX, in whole seconds
Jitters == {0, JITTER_SECONDS_MAX - 1}

\* one step of the clock: INTERVAL plus the jitter bound, so that an email
\* planned one interval after the start is due after one step
TickSecs == IntervalSecs + JITTER_SECONDS_MAX

-----------------------------------------------------------------------------
(* Working-hours arithmetic: shared/scheduling.py *)

ToLocal(t) == t + UtcOffsetSecs

LocalDay(t) == ToLocal(t) \div DaySecs

LocalHour(t) == (ToLocal(t) % DaySecs) \div HourSecs

\* datetime.weekday(): Monday = 0 .. Sunday = 6
Weekday(day) == day % 7

create_date_in_timezone(day, hour, secs) ==
    (day * DaySecs + hour * HourSecs + secs) - UtcOffsetSecs

RECURSIVE SkipWeekend(_)
SkipWeekend(day) == IF Weekday(day) >= 5 THEN SkipWeekend(day + 1) ELSE day

\* fault: the next day, weekend or not
NextDayStart(t) ==
    create_date_in_timezone(LocalDay(t) + 1, WORKING_HOUR_START, 0)

next_weekday_start(t) ==
    create_date_in_timezone(SkipWeekend(LocalDay(t) + 1), WORKING_HOUR_START, 0)

get_start_time_in_timezone(t) ==
    IF Weekday(LocalDay(t)) >= 5 THEN next_weekday_start(t)
    ELSE IF LocalHour(t) < WORKING_HOUR_START
         THEN create_date_in_timezone(LocalDay(t), WORKING_HOUR_START, 0)
    ELSE IF LocalHour(t) >= WORKING_HOUR_END THEN next_weekday_start(t)
    ELSE create_date_in_timezone(LocalDay(t), LocalHour(t),
                                 ToLocal(t) % HourSecs)

adjust_to_working_hours(t) ==
    IF Weekday(LocalDay(t)) >= 5 THEN next_weekday_start(t)
    ELSE IF t >= create_date_in_timezone(LocalDay(t), WORKING_HOUR_END, 0)
         THEN next_weekday_start(t)
    ELSE t

\* campaign-runner main.py: the worker's gate, hours hard-coded, no weekday test
is_working_hours(t) ==
    IF DISABLE_WORKING_HOURS THEN TRUE
    ELSE 9 <= LocalHour(t) /\ LocalHour(t) < 17

-----------------------------------------------------------------------------
(* Small helpers *)

Max(S) == CHOOSE x \in S : \A y \in S : y <= x

Min(S) == CHOOSE x \in S : \A y \in S : x <= y

EmptyMap == [d \in {} |-> 0]

Put(f, k, v) == [x \in DOMAIN f \cup {k} |-> IF x = k THEN v ELSE f[x]]

\* a set of ids in created_at order
RECURSIVE Ordered(_)
Ordered(S) == IF S = {} THEN << >> ELSE <<Min(S)>> \o Ordered(S \ {Min(S)})

\* fault: no limit
Unlimited(s, n) == s

FirstN(s, n) == IF Len(s) <= n THEN s ELSE SubSeq(s, 1, n)

-----------------------------------------------------------------------------
(* Subject substitution: api/shared/email.py *)

\* a subject is a sequence of pieces: plain text, or a placeholder {{v}}
Text(x) == [kind |-> "text", v |-> x]

Placeholder(x) == [kind |-> "var", v |-> x]

\* str.lower() and str.upper() on the variable names of the model
Lower(x) == IF x \in {"Zip", "zip", "ZIP"} THEN "zip" ELSE x

Upper(x) == IF x \in {"Zip", "zip", "ZIP"} THEN "ZIP" ELSE x

\* the result of dict.get for a missing key
None == "None"

\* data.get(k)
Get(data, k) == IF k \in DOMAIN data THEN data[k] ELSE None

\* Python's "a or b": a when a is truthy, else b
Or(a, b) == IF a # None /\ a # "" THEN a ELSE b

\* the replacer of one match
replacer(piece, data) ==
    LET val == Or(Or(Get(data, piece.v), Get(data, Lower(piece.v))),
                  Get(data, Upper(piece.v)))
    IN  IF val # None THEN Text(val) ELSE piece

\* re.sub over the placeholders of content; content is returned as it is
\* when data is None or empty
replace_variables(content, data) ==
    IF DOMAIN data = {} THEN content
    ELSE [k \in DOMAIN content |->
            IF content[k].kind = "var" THEN replacer(content[k], data)
            ELSE content[k]]

\* a subject without placeholder, and the row of a recipient
PlainSubject == <<Text("Hello")>>

PlainRow == [k \in {"Name"} |-> "rcpt"]

-----------------------------------------------------------------------------
(* Store rows *)

\* the store's created_at of row i: rows are numbered in insertion order
created_at(i) == i

\* tasks/generate.py: the row inserted per recipient
StagedRow(c) ==
    [status |-> "staged", camp |-> c, to_email |-> "rcpt", from_email |-> NoSender,
     subject |-> PlainSubject,
     body |-> "", scheduled_for |-> NULL, domain_index |-> NULL,
     sent_at |-> NULL, error_message |-> NoError]

Exists(q, id) == id \in DOMAIN q

RowsOf(q, c, sts) == {i \in DOMAIN q : q[i].camp = c /\ q[i].status \in sts}

\* attempts: mark_processing calls; claims: those that returned true;
\* sinceQueued: claims since the last planner write; sends: transmission calls;
\* sentCalls: mark_sent calls; claimers, senders: the workers that made them;
\* retries: retry-failed writes; launches: launch writes
NoHist ==
    [attempts |-> 0, claims |-> 0, sinceQueued |-> 0, sends |-> 0, sentCalls |-> 0,
     claimers |-> {}, senders |-> {}, retries |-> 0, launches |-> 0]

-----------------------------------------------------------------------------
(* Initial state: campaigns created in draft, empty queue, everything idle *)

IdleStage ==
    [pc |-> "idle", camp |-> "c1", n |-> 0, subject_line |-> PlainSubject,
     row |-> PlainRow]

IdlePlan ==
    [pc |-> "idle", kind |-> "launch", camp |-> "c1", todo |-> << >>,
     dls |-> EmptyMap, dct |-> EmptyMap, rr |-> 0, start |-> 0]

IdleWorker ==
    [pc |-> "idle", batch |-> << >>, errs |-> [c \in Campaigns |-> 0],
     paused |-> {}, body |-> ""]

IdleRec == [pc |-> "idle", camp |-> "c1", seen |-> "draft", ret |-> "none"]

\* Monday 09:00 local of the second week
StartInstants == {create_date_in_timezone(7, 9, 0)}

AllIdle ==
    /\ stage = [s \in StageTasks |-> IdleStage]
    /\ plan = [t \in PlanTasks |-> IdlePlan]
    /\ planRuns = 0
    /\ wk = [w \in Workers |-> IdleWorker]
    /\ rec = IdleRec

Init ==
    /\ now \in StartInstants
    /\ interval = IntervalSecs
    /\ recipients = [c \in Campaigns |-> 1]
    /\ aiDown = FALSE
    /\ DISABLE_WORKING_HOURS = FALSE
    /\ campStatus = [c \in Campaigns |-> "draft"]
    /\ campTotal = [c \in Campaigns |-> 0]
    /\ queue = EmptyMap
    /\ nextId = 1
    /\ AllIdle
    /\ hist = EmptyMap
    /\ track = FALSE

-----------------------------------------------------------------------------
(* Stage: routers/campaigns.py generate_emails + tasks/generate.py *)

\* the handler's status precondition
StageAllowed(st) == st \in {"draft", "staged"}

\* POST /generate, then steps 1-2 of the task: reads only; content is the
\* campaign's subject line and data the row built from the recipient's contact.
\* With no recipient the task returns without writing anything.
StageStartWith(s, c, content, data) ==
    /\ stage[s].pc = "idle"
    /\ StageAllowed(campStatus[c])
    /\ recipients[c] > 0
    /\ nextId + recipients[c] - 1 <= MaxItems
    /\ stage' = [stage EXCEPT ![s] = [pc |-> "delete", camp |-> c,
                                      n |-> recipients[c],
                                      subject_line |-> content, row |-> data]]
    /\ UNCHANGED <<now, env, campStatus, campTotal, queue, nextId, plan,
                   planRuns, wk, rec, hist>>

\* the same for a campaign whose subject line has no placeholder
StageStart(s, c) == StageStartWith(s, c, PlainSubject, PlainRow)

\* the rows left by the delete of step 3
DeleteStaged(q, c) ==
    [i \in DOMAIN q \ RowsOf(q, c, {"staged"}) |-> q[i]]

\* step 3: delete the campaign's staged rows
StageDelete(s) ==
    /\ stage[s].pc = "delete"
    /\ queue' = DeleteStaged(queue, stage[s].camp)
    /\ hist' = [i \in DOMAIN queue' |-> hist[i]]
    /\ stage' = [stage EXCEPT ![s].pc = "insert"]
    /\ UNCHANGED <<now, env, campStatus, campTotal, nextId, plan, planRuns,
                   wk, rec>>

\* steps 4-5: build one row per recipient and insert them
StageInsert(s) ==
    /\ stage[s].pc = "insert"
    /\ nextId + stage[s].n - 1 <= MaxItems
    /\ queue' = [i \in DOMAIN queue \cup (nextId .. nextId + stage[s].n - 1) |->
                   IF i \in DOMAIN queue THEN queue[i]
                   ELSE [StagedRow(stage[s].camp) EXCEPT !.subject =
                           replace_variables(stage[s].subject_line, stage[s].row)]]
    /\ hist' = [i \in DOMAIN queue' |-> IF i \in DOMAIN hist THEN hist[i] ELSE NoHist]
    /\ nextId' = nextId + stage[s].n
    /\ stage' = [stage EXCEPT ![s].pc = "update"]
    /\ UNCHANGED <<now, env, campStatus, campTotal, plan, planRuns, wk, rec>>

\* step 6: campaign -> staged, total_recipients = rows built
StageUpdate(s) ==
    /\ stage[s].pc = "update"
    /\ campStatus' = [campStatus EXCEPT ![stage[s].camp] = "staged"]
    /\ campTotal' = [campTotal EXCEPT ![stage[s].camp] = stage[s].n]
    /\ stage' = [stage EXCEPT ![s] = IdleStage]
    /\ UNCHANGED <<now, env, queue, nextId, plan, planRuns, wk, rec, hist>>

\* POST /generate on a campaign without recipients, then steps 1-2 of the task
StageStartEmpty(s, c) ==
    /\ stage[s].pc = "idle"
    /\ StageAllowed(campStatus[c])
    /\ recipients[c] = 0
    /\ stage' = [stage EXCEPT ![s] = [IdleStage EXCEPT !.pc = "return", !.camp = c]]
    /\ UNCHANGED <<now, env, campStatus, campTotal, queue, nextId, plan,
                   planRuns, wk, rec, hist>>

\* "if not recipients: return": the task ends before the delete of step 3
StageReturn(s) ==
    /\ stage[s].pc = "return"
    /\ stage' = [stage EXCEPT ![s] = IdleStage]
    /\ UNCHANGED <<now, env, campStatus, campTotal, queue, nextId, plan,
                   planRuns, wk, rec, hist>>

\* POST /campaigns/{id}/recipients with n contacts: the campaign's recipients
\* are replaced and total_recipients is set to n; with no contact the insert
\* of an empty list may be refused after the delete, and the handler then
\* ends before it writes total_recipients
add_recipients(c, n) ==
    /\ recipients' = [recipients EXCEPT ![c] = n]
    /\ \/ campTotal' = [campTotal EXCEPT ![c] = n]
       \/ n = 0 /\ campTotal' = campTotal
    /\ UNCHANGED <<now, interval, aiDown, track, DISABLE_WORKING_HOURS,
                   campStatus, queue, nextId, stage, plan, planRuns, wk, rec,
                   hist>>

-----------------------------------------------------------------------------
(* Planner: tasks/launch.py and tasks/retry_failed.py *)

Committed(q) ==
    {i \in DOMAIN q : /\ q[i].status \in {"queued", "processing"}
                      /\ q[i].scheduled_for # NULL
                      /\ q[i].domain_index # NULL}

\* latest scheduled_for per domain among queued / processing rows of every campaign
snapshot_domain_commitments(q) ==
    [d \in {q[i].domain_index : i \in Committed(q)} |->
       Max({q[i].scheduled_for : i \in {j \in Committed(q) : q[j].domain_index = d}})]

\* the rows a task plans, oldest first, with the domain_index each carries
RowsToPlan(q, c, st) ==
    LET ids == Ordered(RowsOf(q, c, {st}))
    IN  [k \in 1..Len(ids) |-> [id |-> ids[k], domain_index |-> q[ids[k]].domain_index]]

\* fault: the row's own domain_index is ignored
ChooseRoundRobin(e, rr) == rr % NumDomains

\* the domain of the next row: the one it carries, else round-robin
ChooseDomain(e, rr) ==
    IF e.domain_index # NULL THEN e.domain_index ELSE rr % NumDomains

\* fault: every email is planned from the floor
ScheduleFromFloor(d, dls, dct, start, iv, j) == adjust_to_working_hours(start + j)

\* the three branches that compute scheduled_for
ScheduleFor(d, dls, dct, start, iv, j) ==
    IF d \in DOMAIN dls /\ d \notin DOMAIN dct
    THEN adjust_to_working_hours(dls[d] + iv + j)
    ELSE IF d \in DOMAIN dct
         THEN adjust_to_working_hours(dct[d] + iv + j)
    ELSE adjust_to_working_hours(start + j)

\* "{display_name} <{sender_local}@{domain}>", the domain named by its index
generate_domain_config(sender, d) ==
    IF sender = "todd_vitzthum"
    THEN <<"Todd Vitzthum", "todd.vitzthum", d>>
    ELSE <<"Jeff Richmond", "jeff.richmond", d>>

\* the handler's status precondition
LaunchAllowed(st) == st \in {"staged", "draft"}

\* a new task takes the first free slot
FreeSlot(t) == plan[t].pc = "idle" /\ (t = "p2" => plan["p1"].pc # "idle")

\* steps 1-5 of either task: the rows to plan, the commitments, the start time.
\* With no row to plan the task returns without writing anything.
StartTask(t, c, kind, st) ==
    /\ FreeSlot(t)
    /\ planRuns < MaxPlanRuns
    /\ RowsToPlan(queue, c, st) # << >>
    /\ plan' = [plan EXCEPT ![t] =
                 [pc |-> "write", kind |-> kind, camp |-> c,
                  todo |-> RowsToPlan(queue, c, st),
                  dls |-> snapshot_domain_commitments(queue),
                  dct |-> EmptyMap, rr |-> 0,
                  start |-> get_start_time_in_timezone(now)]]
    /\ planRuns' = planRuns + 1
    /\ UNCHANGED <<now, env, campStatus, campTotal, queue, nextId, stage,
                   wk, rec, hist>>

\* POST /launch, then the task's reads
LaunchStart(t, c) ==
    /\ LaunchAllowed(campStatus[c])
    /\ StartTask(t, c, "launch", "staged")

\* POST /retry-failed (no status precondition), then the task's reads
RetryStart(t, c) ==
    /\ c \in DOMAIN campStatus
    /\ StartTask(t, c, "retry", "failed")

\* fault: the row update without from_email
PlannedRowNoSender(row, kind, sender, d, at) ==
    [row EXCEPT !.status = "queued", !.domain_index = d, !.scheduled_for = at,
                !.error_message = IF kind = "retry" THEN NoError ELSE @]

\* fault: the row update without status
PlannedRowKeepingStatus(row, kind, sender, d, at) ==
    [row EXCEPT !.domain_index = d, !.scheduled_for = at,
                !.from_email = generate_domain_config(sender, d),
                !.error_message = IF kind = "retry" THEN NoError ELSE @]

\* a row update that is lost
PlannedRowUnwritten(row, kind, sender, d, at) == row

\* the row update of one planned email
PlannedRow(row, kind, sender, d, at) ==
    LET r == [row EXCEPT !.status = "queued", !.domain_index = d,
                         !.from_email = generate_domain_config(sender, d),
                         !.scheduled_for = at]
    IN  IF kind = "retry" THEN [r EXCEPT !.error_message = NoError] ELSE r

\* one turn of the planning loop with jitter j: compute and write one row
PlanWriteWith(t, j) ==
    /\ plan[t].pc = "write"
    /\ LET p   == plan[t]
           e   == Head(p.todo)
           d   == ChooseDomain(e, p.rr)
           at  == ScheduleFor(d, p.dls, p.dct, p.start, interval, j)
           rest == Tail(p.todo)
       IN  /\ queue' = IF Exists(queue, e.id)
                       THEN [queue EXCEPT ![e.id] =
                               PlannedRow(queue[e.id], p.kind, Sender(p.camp), d, at)]
                       ELSE queue
           /\ hist' = IF track /\ Exists(queue, e.id)
                      THEN [hist EXCEPT ![e.id].sinceQueued = 0,
                                        ![e.id].retries =
                                            IF p.kind = "retry" THEN @ + 1 ELSE @,
                                        ![e.id].launches =
                                            IF p.kind = "launch" THEN @ + 1 ELSE @]
                      ELSE hist
           /\ plan' = [plan EXCEPT ![t] =
                        IF rest = << >> /\ p.kind = "retry" THEN IdlePlan
                        ELSE [p EXCEPT !.pc = IF rest = << >> THEN "finish" ELSE "write",
                                       !.todo = rest,
                                       !.dls = Put(p.dls, d, at),
                                       !.dct = Put(p.dct, d, at),
                                       !.rr = p.rr + 1]]
    /\ UNCHANGED <<now, env, campStatus, campTotal, nextId, stage, planRuns,
                   wk, rec>>

\* the turn with the jitter drawn by random.random()
PlanWrite(t) == \E j \in Jitters : PlanWriteWith(t, j)

\* launch step 7: campaign -> scheduled
PlanFinish(t) ==
    /\ plan[t].pc = "finish"
    /\ campStatus' = [campStatus EXCEPT ![plan[t].camp] = "scheduled"]
    /\ plan' = [plan EXCEPT ![t] = IdlePlan]
    /\ UNCHANGED <<now, env, campTotal, queue, nextId, stage, planRuns, wk,
                   rec, hist>>

\* POST /launch on a campaign without staged rows, then steps 1-3 of the task
LaunchStartEmpty(t, c) ==
    /\ LaunchAllowed(campStatus[c])
    /\ FreeSlot(t)
    /\ planRuns < MaxPlanRuns
    /\ RowsToPlan(queue, c, "staged") = << >>
    /\ plan' = [plan EXCEPT ![t] = [IdlePlan EXCEPT !.pc = "return", !.camp = c]]
    /\ planRuns' = planRuns + 1
    /\ UNCHANGED <<now, env, campStatus, campTotal, queue, nextId, stage,
                   wk, rec, hist>>

\* "if not staged_emails: return": the task ends before any write
PlanReturn(t) ==
    /\ plan[t].pc = "return"
    /\ plan' = [plan EXCEPT ![t] = IdlePlan]
    /\ UNCHANGED <<now, env, campStatus, campTotal, queue, nextId, stage,
                   planRuns, wk, rec, hist>>

\* fault: an abort that still writes the campaign status
PlanAbortMarking(t) ==
    /\ plan[t].pc \in {"write", "finish"}
    /\ plan[t].kind = "launch"
    /\ campStatus' = [campStatus EXCEPT ![plan[t].camp] = "scheduled"]
    /\ plan' = [plan EXCEPT ![t].pc = "aborted"]
    /\ UNCHANGED <<now, env, campTotal, queue, nextId, stage, planRuns, wk,
                   rec, hist>>

\* a row update or the campaign update raises: the handler of the task logs
\* the error and the task ends; nothing is undone and nothing more is written
PlanAbort(t) ==
    /\ plan[t].pc \in {"write", "finish"}
    /\ plan[t].kind = "launch"
    /\ plan' = [plan EXCEPT ![t].pc = "aborted"]
    /\ UNCHANGED <<now, env, campStatus, campTotal, queue, nextId, stage,
                   planRuns, wk, rec, hist>>

-----------------------------------------------------------------------------
(* Store operations of the worker: campaign-runner/db.py *)

\* fault: only the campaigns that are scheduled or sending are served
get_launched_emails(q, cs, t, limit) ==
    LET ids == Ordered({i \in DOMAIN q : /\ q[i].status = "queued"
                                         /\ cs[q[i].camp] \in {"scheduled", "sending"}
                                         /\ q[i].scheduled_for # NULL
                                         /\ q[i].scheduled_for <= t})
        rows == [k \in 1..Len(ids) |->
                   [id |-> ids[k], campaign_id |-> q[ids[k]].camp,
                    to_email |-> q[ids[k]].to_email, body |-> q[ids[k]].body]]
    IN  FirstN(rows, limit)

\* rows due now whose campaign is not paused, oldest first, at most `limit`
get_queued_emails(q, cs, t, limit) ==
    LET ids == Ordered({i \in DOMAIN q : /\ q[i].status = "queued"
                                         /\ cs[q[i].camp] # "paused"
                                         /\ q[i].scheduled_for # NULL
                                         /\ q[i].scheduled_for <= t})
        rows == [k \in 1..Len(ids) |->
                   [id |-> ids[k], campaign_id |-> q[ids[k]].camp,
                    to_email |-> q[ids[k]].to_email, body |-> q[ids[k]].body]]
    IN  FirstN(rows, limit)

\* fault: the update of mark_processing without its status filter
ClaimIgnoringStatus(q, id) == Exists(q, id) /\ q[id].status \in {"queued", "processing"}

\* whether the conditional update of mark_processing matches the row
ClaimMatches(q, id) == Exists(q, id) /\ q[id].status = "queued"

\* the row after the update
mark_processing(q, id) ==
    IF ClaimMatches(q, id) THEN [q EXCEPT ![id].status = "processing"] ELSE q

\* fault: mark_processing answering True whenever the call raised nothing
ClaimReturnsOnNoError(q, id) == Exists(q, id)

\* its return value: len(response.data) > 0
ClaimReturns(q, id) == ClaimMatches(q, id)

mark_sent(q, id, t) ==
    IF Exists(q, id) THEN [q EXCEPT ![id].status = "sent", ![id].sent_at = t] ELSE q

mark_failed(q, id, msg) ==
    IF Exists(q, id)
    THEN [q EXCEPT ![id].status = "failed", ![id].error_message = msg]
    ELSE q

update_generated_body(q, id, body) ==
    IF Exists(q, id) THEN [q EXCEPT ![id].body = body] ELSE q

\* an update that matches no row
PauseNothing(cs, c) == cs

\* the update of pause_campaign: by campaign id alone
pause_campaign(cs, c) == [cs EXCEPT ![c] = "paused"]

-----------------------------------------------------------------------------
(* Worker: campaign-runner/main.py process_email_batch *)

\* drop the email just handled; the batch ends with its last email
Advance(w, errs, paused) ==
    IF Len(wk[w].batch) = 1 THEN IdleWorker
    ELSE [pc |-> "claim", batch |-> Tail(wk[w].batch), errs |-> errs,
          paused |-> paused, body |-> ""]

\* one poll inside the working window: fetch the batch
WSelect(w) ==
    /\ wk[w].pc = "idle"
    /\ is_working_hours(now)
    /\ get_queued_emails(queue, campStatus, now, BATCH_SIZE) # << >>
    /\ wk' = [wk EXCEPT ![w] =
               [IdleWorker EXCEPT !.pc = "claim",
                  !.batch = get_queued_emails(queue, campStatus, now, BATCH_SIZE)]]
    /\ UNCHANGED <<now, env, campStatus, campTotal, queue, nextId, stage,
                   plan, planRuns, rec, hist>>

\* head of the loop body: paused-in-batch skip, validation, claim
WClaim(w) ==
    /\ wk[w].pc = "claim"
    /\ LET e == Head(wk[w].batch)
       IN  IF e.campaign_id \in wk[w].paused
           THEN /\ wk' = [wk EXCEPT ![w] = Advance(w, wk[w].errs, wk[w].paused)]
                /\ UNCHANGED <<queue, hist>>
           ELSE IF e.to_email = ""
           THEN /\ queue' = mark_failed(queue, e.id, "Missing core fields")
                /\ wk' = [wk EXCEPT ![w] = Advance(w, wk[w].errs, wk[w].paused)]
                /\ UNCHANGED hist
           ELSE IF ClaimReturns(queue, e.id)
           THEN /\ queue' = mark_processing(queue, e.id)
                /\ hist' = IF track
                           THEN [hist EXCEPT ![e.id].attempts = @ + 1,
                                             ![e.id].claims = @ + 1,
                                             ![e.id].sinceQueued = @ + 1,
                                             ![e.id].claimers = @ \cup {w}]
                           ELSE hist
                /\ wk' = [wk EXCEPT ![w].pc = "handle", ![w].body = e.body]
           ELSE /\ wk' = [wk EXCEPT ![w] = Advance(w, wk[w].errs, wk[w].paused)]
                /\ hist' = IF track /\ Exists(queue, e.id)
                           THEN [hist EXCEPT ![e.id].attempts = @ + 1]
                           ELSE hist
                /\ UNCHANGED queue
    /\ UNCHANGED <<now, env, campStatus, campTotal, nextId, stage, plan,
                   planRuns, rec>>

\* generation, rendering or the body save failed: count, maybe pause, mark failed.
\* stored: whether the update of mark_failed went through (a raised error is
\* swallowed and the return value is not read)
WGenerateFailWith(w, stored) ==
    /\ wk[w].pc = "handle"
    /\ wk[w].body = ""
    /\ LET e    == Head(wk[w].batch)
           c    == e.campaign_id
           errs == [wk[w].errs EXCEPT ![c] = @ + 1]
       IN  IF errs[c] >= CIRCUIT_BREAKER_THRESHOLD
           THEN /\ campStatus' = pause_campaign(campStatus, c)
                /\ wk' = [wk EXCEPT ![w].pc = "tripped", ![w].errs = errs,
                                    ![w].paused = @ \cup {c}]
                /\ UNCHANGED queue
           ELSE /\ queue' = IF stored THEN mark_failed(queue, e.id, "Generation Error")
                            ELSE queue
                /\ wk' = [wk EXCEPT ![w] = Advance(w, errs, wk[w].paused)]
                /\ UNCHANGED campStatus
    /\ UNCHANGED <<now, env, campTotal, nextId, stage, plan, planRuns, rec, hist>>

\* the same with a store that answers
WGenerateFail(w) == WGenerateFailWith(w, TRUE)

\* the mark_failed of the email whose failure tripped the breaker
WTrippedFail(w) ==
    /\ wk[w].pc = "tripped"
    /\ queue' = mark_failed(queue, Head(wk[w].batch).id, "Generation Error")
    /\ wk' = [wk EXCEPT ![w] = Advance(w, wk[w].errs, wk[w].paused)]
    /\ UNCHANGED <<now, env, campStatus, campTotal, nextId, stage, plan,
                   planRuns, rec, hist>>

\* the keyword arguments of the worker's two calls of the renderer
RenderCallKeywords ==
    {"sections", "subject_line", "recipient_data", "generated_content",
     "campaign_id"}

\* the parameters of generate_email_html and of generate_email_text
RendererParameters ==
    {"sections", "subject_line", "recipient_data", "generated_content"}

\* a call binds every keyword to a parameter, or raises TypeError
RendererAccepts(kw) == kw \subseteq RendererParameters

\* the generation block: the AI call, the renderer call, then the body save;
\* an exception of any of the three leaves the block through its handler
GenerationSucceeds(aiOk, saved) ==
    aiOk /\ RendererAccepts(RenderCallKeywords) /\ saved

\* generation and rendering succeeded and the body was saved: reset the counter
\* (never enabled, since the renderer call raises)
WGenerateOk(w) ==
    /\ wk[w].pc = "handle"
    /\ wk[w].body = ""
    /\ GenerationSucceeds(~aiDown, TRUE)
    /\ Exists(queue, Head(wk[w].batch).id)
    /\ queue' = update_generated_body(queue, Head(wk[w].batch).id, "rendered")
    /\ wk' = [wk EXCEPT ![w].body = "rendered",
                        ![w].errs[Head(wk[w].batch).campaign_id] = 0]
    /\ UNCHANGED <<now, env, campStatus, campTotal, nextId, stage, plan,
                   planRuns, rec, hist>>

\* the generation block with a store that accepts every update: its outcome
\* follows from the generator and from the renderer call
WGenerate(w) ==
    IF GenerationSucceeds(~aiDown, TRUE) THEN WGenerateOk(w) ELSE WGenerateFail(w)

\* fault: the body is generated again and saved before the transmission
WSendRegenerating(w, outcome, stored) ==
    /\ wk[w].pc = "handle"
    /\ wk[w].body # ""
    /\ LET e    == Head(wk[w].batch)
           q    == update_generated_body(queue, e.id, "rendered")
           errs == [wk[w].errs EXCEPT ![e.campaign_id] = 0]
       IN  /\ queue' = IF ~stored THEN q
                       ELSE IF outcome = "ok" THEN mark_sent(q, e.id, now)
                       ELSE IF outcome = "rejected"
                            THEN mark_failed(q, e.id, "SparkPost API Error")
                       ELSE mark_failed(q, e.id, "Sending Error")
           /\ hist' = IF track /\ Exists(queue, e.id)
                      THEN [hist EXCEPT ![e.id].sends = @ + 1,
                                        ![e.id].senders = @ \cup {w},
                                        ![e.id].sentCalls =
                                            IF outcome = "ok" THEN @ + 1 ELSE @]
                      ELSE hist
           /\ wk' = [wk EXCEPT ![w] = Advance(w, errs, wk[w].paused)]
    /\ UNCHANGED <<now, env, campStatus, campTotal, nextId, stage, plan,
                   planRuns, rec>>

\* the transmission call and the finalize that follows it.
\* outcome: "ok" (the API accepted), "rejected" (it answered false) or "raised";
\* stored: whether the update of mark_sent / mark_failed went through
WSendWith(w, outcome, stored) ==
    /\ wk[w].pc = "handle"
    /\ wk[w].body # ""
    /\ LET e == Head(wk[w].batch)
       IN  /\ queue' = IF ~stored THEN queue
                       ELSE IF outcome = "ok" THEN mark_sent(queue, e.id, now)
                       ELSE IF outcome = "rejected"
                            THEN mark_failed(queue, e.id, "SparkPost API Error")
                       ELSE mark_failed(queue, e.id, "Sending Error")
           /\ hist' = IF track /\ Exists(queue, e.id)
                      THEN [hist EXCEPT ![e.id].sends = @ + 1,
                                        ![e.id].senders = @ \cup {w},
                                        ![e.id].sentCalls =
                                            IF outcome = "ok" THEN @ + 1 ELSE @]
                      ELSE hist
           /\ wk' = [wk EXCEPT ![w] = Advance(w, wk[w].errs, wk[w].paused)]
    /\ UNCHANGED <<now, env, campStatus, campTotal, nextId, stage, plan,
                   planRuns, rec>>

\* fault: a transmission the API refused counted as a generation failure
WSendCounting(w, ok) ==
    /\ wk[w].pc = "handle"
    /\ wk[w].body # ""
    /\ LET e    == Head(wk[w].batch)
           errs == IF ok THEN wk[w].errs
                   ELSE [wk[w].errs EXCEPT ![e.campaign_id] = @ + 1]
       IN  /\ queue' = IF ok THEN mark_sent(queue, e.id, now)
                       ELSE mark_failed(queue, e.id, "SparkPost API Error")
           /\ hist' = IF track /\ Exists(queue, e.id)
                      THEN [hist EXCEPT ![e.id].sends = @ + 1,
                                        ![e.id].senders = @ \cup {w},
                                        ![e.id].sentCalls = IF ok THEN @ + 1 ELSE @]
                      ELSE hist
           /\ wk' = [wk EXCEPT ![w] = Advance(w, errs, wk[w].paused)]
    /\ UNCHANGED <<now, env, campStatus, campTotal, nextId, stage, plan,
                   planRuns, rec>>

\* the same with a store that answers and an API that answers true or false
WSend(w, ok) == WSendWith(w, IF ok THEN "ok" ELSE "rejected", TRUE)

\* mark_processing raised: it returns False and the email is skipped
WClaimError(w) ==
    /\ wk[w].pc = "claim"
    /\ Head(wk[w].batch).campaign_id \notin wk[w].paused
    /\ Head(wk[w].batch).to_email # ""
    /\ wk' = [wk EXCEPT ![w] = Advance(w, wk[w].errs, wk[w].paused)]
    /\ UNCHANGED <<now, env, campStatus, campTotal, queue, nextId, stage, plan,
                   planRuns, rec, hist>>

\* the worker process dies while it holds a claimed email, before mark_sent or
\* mark_failed: nothing is written, and the process handles no further email
WCrash(w) ==
    /\ wk[w].pc = "handle"
    /\ wk' = [wk EXCEPT ![w].pc = "crashed"]
    /\ UNCHANGED <<now, env, campStatus, campTotal, queue, nextId, stage, plan,
                   planRuns, rec, hist>>

-----------------------------------------------------------------------------
(* Completion check: routers/campaigns.py check_and_update_completed_campaign *)

CountFor(q, c, st) == Cardinality(RowsOf(q, c, {st}))

is_completed(q, c, t) ==
    /\ CountFor(q, c, "queued") = 0
    /\ CountFor(q, c, "processing") = 0
    /\ CountFor(q, c, "sent") + CountFor(q, c, "failed") > 0
    /\ ~ \E i \in RowsOf(q, c, {"queued", "processing"}) :
           q[i].scheduled_for # NULL /\ q[i].scheduled_for > t

\* step 2: only campaigns that are scheduled or sending are checked
Checkable(st) == st \in {"scheduled", "sending"}

\* steps 1-2: read the status; any other status returns False at once
RecStart(c) ==
    /\ rec.pc = "idle"
    /\ Checkable(campStatus[c])
    /\ rec' = [pc |-> "count", camp |-> c, seen |-> campStatus[c], ret |-> "none"]
    /\ UNCHANGED <<now, env, campStatus, campTotal, queue, nextId, stage,
                   plan, planRuns, wk, hist>>

\* the outcome of the check, kept with the history: the code returns True for
\* "true" and False for both "false" (not completed) and "stale" (no row matched)
Returned(r) == IF track THEN r ELSE "none"

\* steps 3-5: the counts and the completion test
RecCount ==
    /\ rec.pc = "count"
    /\ rec' = IF is_completed(queue, rec.camp, now)
              THEN [rec EXCEPT !.pc = "write"]
              ELSE [rec EXCEPT !.pc = "idle", !.ret = Returned("false")]
    /\ UNCHANGED <<now, env, campStatus, campTotal, queue, nextId, stage,
                   plan, planRuns, wk, hist>>

\* fault: the completion update filtered by id alone
StatusIgnored(current, seen) == current = current

\* whether the update's filter still matches the campaign row
StatusMatches(current, seen) == current = seen

\* step 6: the update predicated on the status read in step 1
RecWrite ==
    /\ rec.pc = "write"
    /\ IF StatusMatches(campStatus[rec.camp], rec.seen)
       THEN /\ campStatus' = [campStatus EXCEPT ![rec.camp] = "completed"]
            /\ rec' = [rec EXCEPT !.pc = "idle", !.ret = Returned("true")]
       ELSE /\ campStatus' = campStatus
            /\ rec' = [rec EXCEPT !.pc = "idle", !.ret = Returned("stale")]
    /\ UNCHANGED <<now, env, campTotal, queue, nextId, stage, plan, planRuns,
                   wk, hist>>

-----------------------------------------------------------------------------
(* Operator and clock *)

OperatorStatuses == {"paused", "cancelled", "scheduled"}

\* PUT /campaigns/{id} with a status, on a launched campaign:
\* routers/campaigns.py update_campaign (the handler accepts any status on any
\* campaign; setting draft is OperatorSetDraft below)
OperatorSetStatus(c, s) ==
    /\ campStatus[c] \notin {"draft", "staged", s}
    /\ campStatus' = [campStatus EXCEPT ![c] = s]
    /\ UNCHANGED <<now, env, campTotal, queue, nextId, stage, plan, planRuns,
                   wk, rec, hist>>

\* PUT /campaigns/{id} with status draft, on any campaign: the handler deletes
\* the campaign's staged rows, then writes status draft and total_recipients 0;
\* rows that are no longer staged stay
OperatorSetDraft(c) ==
    /\ queue' = DeleteStaged(queue, c)
    /\ hist' = [i \in DOMAIN queue' |-> hist[i]]
    /\ campStatus' = [campStatus EXCEPT ![c] = "draft"]
    /\ campTotal' = [campTotal EXCEPT ![c] = 0]
    /\ UNCHANGED <<now, env, nextId, stage, plan, planRuns, wk, rec>>

\* the row update of PUT /campaigns/{cid}/emails/{id}: routers/emails.py
update_email(q, id, body) ==
    IF Exists(q, id) THEN [q EXCEPT ![id].body = body] ELSE q

\* the operator writes the body of an email that is not sent yet (the handler
\* accepts any field of any row; only this use of it is modelled)
OperatorEditBody(i) ==
    /\ Exists(queue, i)
    /\ queue[i].status \in {"staged", "queued"}
    /\ queue[i].body = ""
    /\ queue' = update_email(queue, i, "edited")
    /\ UNCHANGED <<now, env, campStatus, campTotal, nextId, stage, plan,
                   planRuns, wk, rec, hist>>

MaxNow == Max(StartInstants) + MaxTicks * TickSecs

Tick ==
    /\ now + TickSecs <= MaxNow
    /\ now' = now + TickSecs
    /\ UNCHANGED <<env, campStatus, campTotal, queue, nextId, stage, plan,
                   planRuns, wk, rec, hist>>

-----------------------------------------------------------------------------
(* The life of one campaign: staged, launched, dispatched by one worker,   *)
(* retried, read (the completion check) and paused or resumed by hand      *)

Next ==
    \/ StageStart("s1", "c1")
    \/ StageDelete("s1")
    \/ StageInsert("s1")
    \/ StageUpdate("s1")
    \/ LaunchStart("p1", "c1")
    \/ RetryStart("p1", "c1")
    \/ PlanWrite("p1")
    \/ PlanFinish("p1")
    \/ WSelect("w1")
    \/ WClaim("w1")
    \/ WGenerateFail("w1")
    \/ \E ok \in BOOLEAN : WSend("w1", ok)
    \/ OperatorEditBody(1) /\ queue[1].status = "staged"
    \/ RecStart("c1")
    \/ RecCount
    \/ RecWrite
    \/ \E s \in OperatorStatuses : OperatorSetStatus("c1", s)
    \/ Tick

Spec == Init /\ [][Next]_vars

-----------------------------------------------------------------------------
(* States the program reaches, used to start the focused specifications *)

\* after staging: the campaigns of cs hold one staged row each
StagedQueue(cs) ==
    [i \in {k \in {1, 2} : (IF k = 1 THEN "c1" ELSE "c2") \in cs} |->
       StagedRow(IF i = 1 THEN "c1" ELSE "c2")]

StagedState(cs, tr) ==
    /\ recipients = [c \in Campaigns |-> 1]
    /\ aiDown = FALSE
    /\ campStatus = [c \in Campaigns |-> IF c \in cs THEN "staged" ELSE "draft"]
    /\ campTotal = [c \in Campaigns |-> IF c \in cs THEN 1 ELSE 0]
    /\ queue = StagedQueue(cs)
    /\ nextId = 3
    /\ AllIdle
    /\ hist = [i \in DOMAIN queue |-> NoHist]
    /\ track = tr

\* after c1 then c2 were launched at instant t, one after the other, jitter 0
LaunchedQueue(t, iv) ==
    LET start == get_start_time_in_timezone(t)
        at1 == ScheduleFor(0, EmptyMap, EmptyMap, start, iv, 0)
        at2 == ScheduleFor(0, Put(EmptyMap, 0, at1), EmptyMap, start, iv, 0)
    IN  [i \in {1, 2} |->
           IF i = 1 THEN PlannedRow(StagedRow("c1"), "launch", Sender("c1"), 0, at1)
           ELSE PlannedRow(StagedRow("c2"), "launch", Sender("c2"), 0, at2)]

-----------------------------------------------------------------------------
(* Contention on one campaign: overlapping launch and retry-failed tasks   *)
(* and two workers                                                         *)

InitContend ==
    /\ now \in StartInstants
    /\ interval = IntervalSecs
    /\ DISABLE_WORKING_HOURS = FALSE
    /\ StagedState({"c1"}, TRUE)

NextContend ==
    \/ \E t \in PlanTasks : LaunchStart(t, "c1")
    \/ \E t \in PlanTasks : RetryStart(t, "c1")
    \/ \E t \in PlanTasks : PlanWrite(t)
    \/ \E t \in PlanTasks : PlanFinish(t)
    \/ \E w \in Workers : WSelect(w)
    \/ \E w \in Workers : WClaim(w)
    \/ \E w \in Workers : WGenerateFail(w)
    \/ \E i \in DOMAIN queue : OperatorEditBody(i)
    \/ \E w \in Workers, ok \in BOOLEAN : WSend(w, ok)
    \/ Tick

SpecContend == InitContend /\ [][NextContend]_vars

-----------------------------------------------------------------------------
(* Two workers polling a queue that holds launched, due items *)

InitWorkers ==
    /\ now \in StartInstants
    /\ interval = IntervalSecs
    /\ recipients = [c \in Campaigns |-> 1]
    /\ aiDown = FALSE
    /\ DISABLE_WORKING_HOURS = FALSE
    /\ campStatus = [c \in Campaigns |-> "scheduled"]
    /\ campTotal = [c \in Campaigns |-> 1]
    /\ queue = LaunchedQueue(now, interval)
    /\ nextId = 3
    /\ AllIdle
    /\ hist = [i \in DOMAIN queue |-> NoHist]
    /\ track = TRUE

NextWorkers ==
    \/ \E w \in Workers : WSelect(w)
    \/ \E w \in Workers : WClaim(w)
    \/ \E w \in Workers : WGenerateFail(w)
    \/ \E i \in DOMAIN queue : OperatorEditBody(i)
    \/ \E w \in Workers, ok \in BOOLEAN : WSend(w, ok)
    \/ Tick

SpecWorkers == InitWorkers /\ [][NextWorkers]_vars

-----------------------------------------------------------------------------
(* Planning alone: launches of two staged campaigns, overlapping or not,   *)
(* from several instants of the week and with two configured intervals     *)

\* Monday 08:00, Monday 09:00, Monday 16:30, Friday 16:58, Saturday 10:00 local
PlanInstants ==
    {create_date_in_timezone(7, 8, 0), create_date_in_timezone(7, 9, 0),
     create_date_in_timezone(7, 16, 1800), create_date_in_timezone(11, 16, 3480),
     create_date_in_timezone(12, 10, 0)}

\* INTERVAL_MINUTES = 3.5 (the default) and INTERVAL_MINUTES = 960
Intervals == {IntervalSecs, 16 * HourSecs}

InitPlanning ==
    /\ now \in PlanInstants
    /\ interval \in Intervals
    /\ DISABLE_WORKING_HOURS = FALSE
    /\ StagedState(Campaigns, FALSE)

NextPlanning ==
    \/ \E t \in PlanTasks, c \in Campaigns : LaunchStart(t, c)
    \/ \E t \in PlanTasks : PlanWrite(t)
    \/ \E t \in PlanTasks : PlanFinish(t)

SpecPlanning == InitPlanning /\ [][NextPlanning]_vars

\* the same launches with DISABLE_WORKING_HOURS = true in the environment
InitUnclamped ==
    /\ now \in PlanInstants
    /\ interval = IntervalSecs
    /\ DISABLE_WORKING_HOURS = TRUE
    /\ StagedState(Campaigns, FALSE)

SpecUnclamped == InitUnclamped /\ [][NextPlanning]_vars

-----------------------------------------------------------------------------
(* Polling through the week: two campaigns launched on Friday 16:30 local  *)
(* whose items are still queued when the workers poll                      *)

LaunchInstant == create_date_in_timezone(11, 16, 1800)

\* Friday 16:40, Friday 18:00, Saturday 10:00, Sunday 23:00 local
PollInstants ==
    {create_date_in_timezone(11, 16, 2400), create_date_in_timezone(11, 18, 0),
     create_date_in_timezone(12, 10, 0), create_date_in_timezone(13, 23, 0)}

InitPolling ==
    /\ now \in PollInstants
    /\ interval = IntervalSecs
    /\ recipients = [c \in Campaigns |-> 1]
    /\ aiDown = FALSE
    /\ DISABLE_WORKING_HOURS \in BOOLEAN
    /\ campStatus = [c \in Campaigns |-> "scheduled"]
    /\ campTotal = [c \in Campaigns |-> 1]
    /\ queue = LaunchedQueue(LaunchInstant, interval)
    /\ nextId = 3
    /\ AllIdle
    /\ hist = [i \in DOMAIN queue |-> NoHist]
    /\ track = FALSE

NextPolling ==
    \/ \E w \in Workers : WSelect(w)
    \/ \E w \in Workers : WClaim(w)
    \/ \E w \in Workers : WGenerateFail(w)
    \/ \E i \in DOMAIN queue : OperatorEditBody(i)
    \/ \E w \in Workers, ok \in BOOLEAN : WSend(w, ok)

SpecPolling == InitPolling /\ [][NextPolling]_vars

-----------------------------------------------------------------------------
(* The circuit breaker: one worker on a launched campaign of as many       *)
(* emails as the threshold while the generator is down, the completion     *)
(* check, and an operator who cancels or resumes                           *)

BreakerItems == CIRCUIT_BREAKER_THRESHOLD

\* after c1, of BreakerItems recipients, was launched at instant t, jitter 0
BreakerQueue(t, iv) ==
    [i \in 1..BreakerItems |->
       LET d == ChooseDomain([id |-> i, domain_index |-> NULL], i - 1)
       IN  PlannedRow(StagedRow("c1"), "launch", Sender("c1"), d,
                      ScheduleFor(d, EmptyMap, EmptyMap,
                                  get_start_time_in_timezone(t), iv, 0))]

InitBreaker ==
    /\ now \in StartInstants
    /\ interval = IntervalSecs
    /\ recipients = [c \in Campaigns |-> IF c = "c1" THEN BreakerItems ELSE 1]
    /\ aiDown = TRUE
    /\ DISABLE_WORKING_HOURS = FALSE
    /\ campStatus = [c \in Campaigns |-> IF c = "c1" THEN "scheduled" ELSE "draft"]
    /\ campTotal = [c \in Campaigns |-> IF c = "c1" THEN BreakerItems ELSE 0]
    /\ queue = BreakerQueue(now, interval)
    /\ nextId = BreakerItems + 1
    /\ AllIdle
    /\ hist = [i \in DOMAIN queue |-> NoHist]
    /\ track = TRUE

NextBreaker ==
    \/ WSelect("w1")
    \/ WClaim("w1")
    \/ WGenerateFail("w1")
    \/ WTrippedFail("w1")
    \/ RecStart("c1")
    \/ RecCount
    \/ RecWrite
    \/ \E s \in {"cancelled", "scheduled"} : OperatorSetStatus("c1", s)
    \/ Tick

SpecBreaker == InitBreaker /\ [][NextBreaker]_vars

-----------------------------------------------------------------------------
(* The circuit breaker inside one batch: the same, on a campaign of more   *)
(* emails than the threshold, all due and all in the first batch           *)

TripItems == CIRCUIT_BREAKER_THRESHOLD + 2

\* after c1, of n recipients, was launched at instant t, jitter 0: the first
\* NumDomains rows open one domain each
LaunchedItems(n, t, iv) ==
    [i \in 1..n |->
       LET d == ChooseDomain([id |-> i, domain_index |-> NULL], i - 1)
       IN  PlannedRow(StagedRow("c1"), "launch", Sender("c1"), d,
                      ScheduleFor(d, EmptyMap, EmptyMap,
                                  get_start_time_in_timezone(t), iv, 0))]

InitTrip ==
    /\ now \in StartInstants
    /\ interval = IntervalSecs
    /\ recipients = [c \in Campaigns |-> IF c = "c1" THEN TripItems ELSE 1]
    /\ aiDown = TRUE
    /\ DISABLE_WORKING_HOURS = FALSE
    /\ campStatus = [c \in Campaigns |-> IF c = "c1" THEN "scheduled" ELSE "draft"]
    /\ campTotal = [c \in Campaigns |-> IF c = "c1" THEN TripItems ELSE 0]
    /\ queue = LaunchedItems(TripItems, now, interval)
    /\ nextId = TripItems + 1
    /\ AllIdle
    /\ hist = [i \in DOMAIN queue |-> NoHist]
    /\ track = FALSE

SpecTrip == InitTrip /\ [][NextBreaker]_vars

-----------------------------------------------------------------------------
(* The circuit breaker during a launch: the launch task of a campaign of   *)
(* one email more than the threshold has written all rows but the last,    *)
(* jitter 0, and the worker is already serving them; the generator is down *)

InFlightItems == CIRCUIT_BREAKER_THRESHOLD + 1

InFlightQueue(t, iv) ==
    [i \in 1..InFlightItems |->
       IF i < InFlightItems THEN LaunchedItems(InFlightItems, t, iv)[i]
       ELSE StagedRow("c1")]

\* the launch task after InFlightItems - 1 turns of its loop
InFlightPlan(t, iv) ==
    LET written == [d \in 0..(InFlightItems - 2) |->
                       LaunchedItems(InFlightItems, t, iv)[d + 1].scheduled_for]
    IN  [pc |-> "write", kind |-> "launch", camp |-> "c1",
         todo |-> <<[id |-> InFlightItems, domain_index |-> NULL]>>,
         dls |-> written, dct |-> written, rr |-> InFlightItems - 1,
         start |-> get_start_time_in_timezone(t)]

InitInFlight ==
    /\ now \in StartInstants
    /\ interval = IntervalSecs
    /\ recipients = [c \in Campaigns |-> IF c = "c1" THEN InFlightItems ELSE 1]
    /\ aiDown = TRUE
    /\ DISABLE_WORKING_HOURS = FALSE
    /\ campStatus = [c \in Campaigns |-> IF c = "c1" THEN "staged" ELSE "draft"]
    /\ campTotal = [c \in Campaigns |-> IF c = "c1" THEN InFlightItems ELSE 0]
    /\ queue = InFlightQueue(now, interval)
    /\ nextId = InFlightItems + 1
    /\ stage = [s \in StageTasks |-> IdleStage]
    /\ plan = [t \in PlanTasks |->
                 IF t = "p1" THEN InFlightPlan(now, interval) ELSE IdlePlan]
    /\ planRuns = 1
    /\ wk = [w \in Workers |-> IdleWorker]
    /\ rec = IdleRec
    /\ hist = [i \in DOMAIN queue |-> NoHist]
    /\ track = FALSE

NextInFlight ==
    \/ PlanWrite("p1")
    \/ PlanFinish("p1")
    \/ WSelect("w1")
    \/ WClaim("w1")
    \/ WGenerateFail("w1")
    \/ WTrippedFail("w1")
    \/ OperatorSetStatus("c1", "scheduled")
    \/ Tick

SpecInFlight == InitInFlight /\ [][NextInFlight]_vars

-----------------------------------------------------------------------------
(* Retrying: c1 of two emails and c2 of one were launched one after the    *)
(* other; a worker serves them, the completion check runs, and failed      *)
(* emails are retried                                                      *)

\* rows 1 and 2 of c1 open domains 0 and 1; row 3 of c2 follows row 1 on domain 0
RetryQueue(t, iv) ==
    LET first == LaunchedItems(2, t, iv)
        dls   == [d \in {0, 1} |-> first[d + 1].scheduled_for]
        at3   == ScheduleFor(0, dls, EmptyMap, get_start_time_in_timezone(t), iv, 0)
    IN  [i \in 1..3 |->
           IF i < 3 THEN first[i]
           ELSE PlannedRow(StagedRow("c2"), "launch", Sender("c2"), 0, at3)]

InitRetry ==
    /\ now \in StartInstants
    /\ interval = IntervalSecs
    /\ recipients = [c \in Campaigns |-> IF c = "c1" THEN 2 ELSE 1]
    /\ aiDown = FALSE
    /\ DISABLE_WORKING_HOURS = FALSE
    /\ campStatus = [c \in Campaigns |-> "scheduled"]
    /\ campTotal = recipients
    /\ queue = RetryQueue(now, interval)
    /\ nextId = 4
    /\ AllIdle
    /\ hist = [i \in DOMAIN queue |-> NoHist]
    /\ track = TRUE

NextRetry ==
    \/ \E c \in Campaigns : RetryStart("p1", c)
    \/ PlanWrite("p1")
    \/ WSelect("w1")
    \/ WClaim("w1")
    \/ WGenerateFail("w1")
    \/ \E i \in DOMAIN queue : OperatorEditBody(i)
    \/ \E ok \in BOOLEAN : WSend("w1", ok)
    \/ RecStart("c1")
    \/ RecCount
    \/ RecWrite

SpecRetry == InitRetry /\ [][NextRetry]_vars

-----------------------------------------------------------------------------
(* Clamping: launches of two staged campaigns of one email each, one after *)
(* the other, from every hour of one week                                  *)

\* each hour of the days Monday .. Sunday of the second week, on the hour and
\* two minutes before the next
ClampInstants ==
    {create_date_in_timezone(day, hour, secs) :
        day \in 7..13, hour \in 0..23, secs \in {0, 58 * 60}}

InitClamp ==
    /\ now \in ClampInstants
    /\ interval = IntervalSecs
    /\ DISABLE_WORKING_HOURS = FALSE
    /\ StagedState(Campaigns, FALSE)

NextClamp ==
    \/ \E c \in Campaigns : LaunchStart("p1", c)
    \/ PlanWrite("p1")
    \/ PlanFinish("p1")

SpecClamp == InitClamp /\ [][NextClamp]_vars

-----------------------------------------------------------------------------
(* One launch with zero jitter: a staged campaign of n fresh emails, no    *)
(* commitment in the store, launched at an instant inside the window       *)

\* up to two full rounds of the pool and one email more
LaunchSizes == {1, NumDomains, NumDomains + 1, 2 * NumDomains + 1}

\* Monday 09:00, Monday 12:00, Monday 16:55 local
WindowInstants ==
    {create_date_in_timezone(7, 9, 0), create_date_in_timezone(7, 12, 0),
     create_date_in_timezone(7, 16, 3300)}

InitSchedule ==
    /\ now \in WindowInstants
    /\ interval = IntervalSecs
    /\ \E n \in LaunchSizes :
         /\ recipients = [c \in Campaigns |-> IF c = "c1" THEN n ELSE 1]
         /\ campTotal = [c \in Campaigns |-> IF c = "c1" THEN n ELSE 0]
         /\ queue = [i \in 1..n |-> StagedRow("c1")]
         /\ nextId = n + 1
    /\ aiDown = FALSE
    /\ DISABLE_WORKING_HOURS = FALSE
    /\ campStatus = [c \in Campaigns |-> IF c = "c1" THEN "staged" ELSE "draft"]
    /\ AllIdle
    /\ hist = [i \in DOMAIN queue |-> NoHist]
    /\ track = FALSE

NextSchedule ==
    \/ LaunchStart("p1", "c1")
    \/ PlanWriteWith("p1", 0)
    \/ PlanFinish("p1")

SpecSchedule == InitSchedule /\ [][NextSchedule]_vars

-----------------------------------------------------------------------------
(* Batches: two workers on a launched campaign of two emails more than a   *)
(* batch holds, all due; the generator and the store answer every call     *)

BacklogItems == BATCH_SIZE + 2

InitBacklog ==
    /\ now \in StartInstants
    /\ interval = IntervalSecs
    /\ recipients = [c \in Campaigns |-> IF c = "c1" THEN BacklogItems ELSE 1]
    /\ aiDown = FALSE
    /\ DISABLE_WORKING_HOURS = FALSE
    /\ campStatus = [c \in Campaigns |-> IF c = "c1" THEN "scheduled" ELSE "draft"]
    /\ campTotal = [c \in Campaigns |-> IF c = "c1" THEN BacklogItems ELSE 0]
    /\ queue = LaunchedItems(BacklogItems, now, interval)
    /\ nextId = BacklogItems + 1
    /\ AllIdle
    /\ hist = [i \in DOMAIN queue |-> NoHist]
    /\ track = FALSE

NextBacklog ==
    \/ \E w \in Workers : WSelect(w)
    \/ \E w \in Workers : WClaim(w)
    \/ \E w \in Workers : WGenerate(w)
    \/ \E w \in Workers : WTrippedFail(w)

SpecBacklog == InitBacklog /\ [][NextBacklog]_vars

-----------------------------------------------------------------------------
(* Failures inside a batch: two workers on a launched campaign of three    *)
(* due emails, the second with a body written by the operator; every call *)
(* of the loop body may fail, the store's updates included                 *)

FaultyQueue(t, iv) ==
    [i \in 1..3 |->
       IF i = 2 THEN update_email(LaunchedItems(3, t, iv), 2, "edited")[2]
       ELSE LaunchedItems(3, t, iv)[i]]

InitFaulty ==
    /\ now \in StartInstants
    /\ interval = IntervalSecs
    /\ recipients = [c \in Campaigns |-> IF c = "c1" THEN 3 ELSE 1]
    /\ aiDown = FALSE
    /\ DISABLE_WORKING_HOURS = FALSE
    /\ campStatus = [c \in Campaigns |-> IF c = "c1" THEN "scheduled" ELSE "draft"]
    /\ campTotal = [c \in Campaigns |-> IF c = "c1" THEN 3 ELSE 0]
    /\ queue = FaultyQueue(now, interval)
    /\ nextId = 4
    /\ AllIdle
    /\ hist = [i \in DOMAIN queue |-> NoHist]
    /\ track = TRUE

SendOutcomes == {"ok", "rejected", "raised"}

NextFaulty ==
    \/ \E w \in Workers : WSelect(w)
    \/ \E w \in Workers : WClaim(w)
    \/ \E w \in Workers : WClaimError(w)
    \/ \E w \in Workers, stored \in BOOLEAN : WGenerateFailWith(w, stored)
    \/ \E w \in Workers, o \in SendOutcomes, stored \in BOOLEAN : WSendWith(w, o, stored)

SpecFaulty == InitFaulty /\ [][NextFaulty]_vars

-----------------------------------------------------------------------------
(* The same queue with a store that accepts every update: generation and   *)
(* transmission may fail, and the second email skips the generation        *)

NextResend ==
    \/ \E w \in Workers : WSelect(w)
    \/ \E w \in Workers : WClaim(w)
    \/ \E w \in Workers : WGenerateFail(w)
    \/ \E w \in Workers, ok \in BOOLEAN : WSend(w, ok)

SpecResend == InitFaulty /\ [][NextResend]_vars

-----------------------------------------------------------------------------
(* Staging with a recipient list that the operator replaces between runs,  *)
(* the empty list included                                                 *)

RecipientCounts == 0 .. MaxItems

InitStaging ==
    /\ now \in StartInstants
    /\ interval = IntervalSecs
    /\ recipients \in [Campaigns -> RecipientCounts]
    /\ aiDown = FALSE
    /\ DISABLE_WORKING_HOURS = FALSE
    /\ campStatus = [c \in Campaigns |-> "draft"]
    /\ campTotal = recipients
    /\ queue = EmptyMap
    /\ nextId = 1
    /\ AllIdle
    /\ hist = EmptyMap
    /\ track = FALSE

NextStaging ==
    \/ \E c \in Campaigns, n \in RecipientCounts :
          stage["s1"].pc = "idle" /\ add_recipients(c, n)
    \/ \E c \in Campaigns : StageStart("s1", c)
    \/ \E c \in Campaigns : StageStartEmpty("s1", c)
    \/ StageReturn("s1")
    \/ StageDelete("s1")
    \/ StageInsert("s1")
    \/ StageUpdate("s1")

SpecStaging == InitStaging /\ [][NextStaging]_vars

-----------------------------------------------------------------------------
(* Just-in-time generation with every dependency answering: two workers on *)
(* a launched campaign of three due emails; the generator, the store and   *)
(* the transmission API succeed on every call, and the operator may write  *)
(* a body by hand                                                          *)

RenderItems == 3

InitRender ==
    /\ now \in StartInstants
    /\ interval = IntervalSecs
    /\ recipients = [c \in Campaigns |-> IF c = "c1" THEN RenderItems ELSE 1]
    /\ aiDown = FALSE
    /\ DISABLE_WORKING_HOURS = FALSE
    /\ campStatus = [c \in Campaigns |-> IF c = "c1" THEN "scheduled" ELSE "draft"]
    /\ campTotal = [c \in Campaigns |-> IF c = "c1" THEN RenderItems ELSE 0]
    /\ queue = LaunchedItems(RenderItems, now, interval)
    /\ nextId = RenderItems + 1
    /\ AllIdle
    /\ hist = [i \in DOMAIN queue |-> NoHist]
    /\ track = TRUE

NextRender ==
    \/ \E w \in Workers : WSelect(w)
    \/ \E w \in Workers : WClaim(w)
    \/ \E w \in Workers : WGenerate(w)
    \/ \E w \in Workers : WSend(w, TRUE)
    \/ \E i \in 1..RenderItems : OperatorEditBody(i)

SpecRender == InitRender /\ [][NextRender]_vars

-----------------------------------------------------------------------------
(* The failure counter of a batch: one worker on a campaign of one email   *)
(* more than the threshold, all due, some with a body written by the       *)
(* operator; each generation fails, each transmission may fail or succeed, *)
(* and the operator resumes the campaign after a pause                     *)

CounterItems == CIRCUIT_BREAKER_THRESHOLD + 1

\* the emails whose body the operator may have written before the batch
CounterEdited == 1 .. CounterItems

\* the launched emails, those of the set e with a body
CounterQueue(t, iv, e) ==
    [i \in 1..CounterItems |->
       IF i \in e THEN update_email(LaunchedItems(CounterItems, t, iv), i, "edited")[i]
       ELSE LaunchedItems(CounterItems, t, iv)[i]]

InitCounter ==
    /\ now \in StartInstants
    /\ interval = IntervalSecs
    /\ recipients = [c \in Campaigns |-> IF c = "c1" THEN CounterItems ELSE 1]
    /\ aiDown = FALSE
    /\ DISABLE_WORKING_HOURS = FALSE
    /\ campStatus = [c \in Campaigns |-> IF c = "c1" THEN "scheduled" ELSE "draft"]
    /\ campTotal = [c \in Campaigns |-> IF c = "c1" THEN CounterItems ELSE 0]
    /\ \E e \in SUBSET CounterEdited : queue = CounterQueue(now, interval, e)
    /\ nextId = CounterItems + 1
    /\ AllIdle
    /\ hist = [i \in DOMAIN queue |-> NoHist]
    /\ track = FALSE

NextCounter ==
    \/ WSelect("w1")
    \/ WClaim("w1")
    \/ WGenerateFail("w1")
    \/ WTrippedFail("w1")
    \/ \E ok \in BOOLEAN : WSend("w1", ok)
    \/ OperatorSetStatus("c1", "scheduled")

SpecCounter == InitCounter /\ [][NextCounter]_vars

-----------------------------------------------------------------------------
(* A worker that dies holding a claimed email, while launch, retry-failed  *)
(* and stage tasks, the completion check and the other worker go on        *)

InitCrash ==
    /\ now \in StartInstants
    /\ interval = IntervalSecs
    /\ recipients = [c \in Campaigns |-> 1]
    /\ aiDown = FALSE
    /\ DISABLE_WORKING_HOURS = FALSE
    /\ campStatus = [c \in Campaigns |-> IF c = "c1" THEN "staged" ELSE "draft"]
    /\ campTotal = [c \in Campaigns |-> IF c = "c1" THEN 1 ELSE 0]
    /\ queue = StagedQueue({"c1"})
    /\ nextId = 2
    /\ AllIdle
    /\ hist = [i \in DOMAIN queue |-> NoHist]
    /\ track = TRUE

NextCrash ==
    \/ \E t \in PlanTasks : LaunchStart(t, "c1")
    \/ \E t \in PlanTasks : RetryStart(t, "c1")
    \/ \E t \in PlanTasks : PlanWrite(t)
    \/ \E t \in PlanTasks : PlanFinish(t)
    \/ StageStart("s1", "c1")
    \/ StageDelete("s1")
    \/ StageInsert("s1")
    \/ StageUpdate("s1")
    \/ \E w \in Workers : WSelect(w)
    \/ \E w \in Workers : WClaim(w)
    \/ \E w \in Workers : WCrash(w)
    \/ \E w \in Workers : WGenerateFail(w)
    \/ \E i \in DOMAIN queue : OperatorEditBody(i)
    \/ \E w \in Workers, ok \in BOOLEAN : WSend(w, ok)
    \/ RecStart("c1")
    \/ RecCount
    \/ RecWrite

SpecCrash == InitCrash /\ [][NextCrash]_vars

-----------------------------------------------------------------------------
(* A launch behind an old commitment: c1 was launched on Monday 09:00 and  *)
(* paused by the operator with its email still queued on domain 0; c2 is   *)
(* launched at a later instant of that week or of the next weekend         *)

\* the instant of the first launch
StaleLaunch == create_date_in_timezone(7, 9, 0)

\* the instants of the second launch: 08:00, 10:00, 13:00, 16:00 and 18:00
\* local of the seven days from that Monday on
StaleInstants ==
    {create_date_in_timezone(d, h, 0) : d \in 7..13, h \in {8, 10, 13, 16, 18}}
       \ {create_date_in_timezone(7, 8, 0)}

StaleQueue(iv) ==
    [i \in {1, 2} |->
       IF i = 1 THEN LaunchedQueue(StaleLaunch, iv)[1] ELSE StagedRow("c2")]

InitStale ==
    /\ now \in StaleInstants
    /\ interval \in Intervals
    /\ recipients = [c \in Campaigns |-> 1]
    /\ aiDown = FALSE
    /\ DISABLE_WORKING_HOURS = FALSE
    /\ campStatus = [c \in Campaigns |-> IF c = "c1" THEN "paused" ELSE "staged"]
    /\ campTotal = [c \in Campaigns |-> 1]
    /\ queue = StaleQueue(interval)
    /\ nextId = 3
    /\ AllIdle
    /\ hist = [i \in DOMAIN queue |-> NoHist]
    /\ track = FALSE

NextStale ==
    \/ LaunchStart("p1", "c2")
    \/ PlanWrite("p1")
    \/ PlanFinish("p1")

SpecStale == InitStale /\ [][NextStale]_vars

-----------------------------------------------------------------------------
(* One planner run over emails that share a domain: a retry-failed of      *)
(* three failed emails of c1, two of them on domain 0, or a launch of one  *)
(* round of the pool and one email more; c2 holds a commitment on domain 0 *)

\* a launch whose last email comes back to domain 0
OrderLaunchItems == NumDomains + 1

\* the failed emails of the retry and the domains they carry
OrderFailedDomains == <<0, 0, 1>>

\* the commitment of c2 on domain 0: Monday 09:00, Friday 16:59, Monday week 09:00
OrderCommitments ==
    {create_date_in_timezone(7, 9, 0), create_date_in_timezone(11, 16, 3540),
     create_date_in_timezone(14, 9, 0)}

\* the queued email of c2
OrderCommitted(at) ==
    PlannedRow(StagedRow("c2"), "launch", Sender("c2"), 0, at)

\* kind "retry": three failed emails of c1, planned earlier at instant prev
\* and failed by a worker; kind "launch": OrderLaunchItems staged emails
OrderQueue(kind, prev, at) ==
    LET n == IF kind = "retry" THEN Len(OrderFailedDomains) ELSE OrderLaunchItems
    IN  [i \in 1..(n + 1) |->
           IF i = n + 1 THEN OrderCommitted(at)
           ELSE IF kind = "launch" THEN StagedRow("c1")
           ELSE mark_failed(
                  [k \in {i} |->
                     PlannedRow(StagedRow("c1"), "launch", Sender("c1"),
                                OrderFailedDomains[i], prev)],
                  i, "Generation Error")[i]]

InitOrder ==
    /\ now \in PlanInstants
    /\ interval \in Intervals
    /\ aiDown = FALSE
    /\ DISABLE_WORKING_HOURS = FALSE
    /\ \E kind \in {"launch", "retry"}, at \in OrderCommitments :
          /\ queue = OrderQueue(kind, StaleLaunch, at)
          /\ campStatus = [c \in Campaigns |->
                             IF c = "c1" /\ kind = "launch" THEN "staged"
                             ELSE "scheduled"]
    /\ recipients = [c \in Campaigns |->
                       IF c = "c1" THEN Len(queue) - 1 ELSE 1]
    /\ campTotal = recipients
    /\ nextId = Len(queue) + 1
    /\ AllIdle
    /\ hist = [i \in DOMAIN queue |-> NoHist]
    /\ track = FALSE

\* the jitter is drawn freely for the emails of domains 0 and 1 and is 0 for
\* the emails that are alone on their domain
OrderJitters(t) ==
    IF plan[t].todo # << >>
       /\ ChooseDomain(Head(plan[t].todo), plan[t].rr) \in {0, 1}
    THEN Jitters ELSE {0}

NextOrder ==
    \/ LaunchStart("p1", "c1")
    \/ RetryStart("p1", "c1")
    \/ \E j \in OrderJitters("p1") : PlanWriteWith("p1", j)
    \/ PlanFinish("p1")

SpecOrder == InitOrder /\ [][NextOrder]_vars

-----------------------------------------------------------------------------
(* Launching a selection: c1 of three staged emails and c2 of one; the     *)
(* operator posts /launch for c1 with every LaunchRequest body             *)

SubsetItems == 3

\* LaunchRequest: all, and emailIds, which is None unless given
LaunchRequests ==
    [all : BOOLEAN, given : BOOLEAN, emailIds : SUBSET (1..(SubsetItems + 1))]
       \ {r \in [all : BOOLEAN, given : BOOLEAN,
                  emailIds : SUBSET (1..(SubsetItems + 1))] :
              ~r.given /\ r.emailIds # {}}

\* step 3: the staged rows of the campaign, oldest first, restricted to
\* emailIds "if not all_emails and email_ids"
staged_emails(q, c, req) ==
    LET rows == RowsToPlan(q, c, "staged")
    IN  IF ~req.all /\ req.given /\ req.emailIds # {}
        THEN SelectSeq(rows, LAMBDA e : e.id \in req.emailIds)
        ELSE rows

\* POST /launch with a request body, then the task's reads; the task keeps
\* request_data
LaunchRequestStart(t, c, req) ==
    /\ LaunchAllowed(campStatus[c])
    /\ FreeSlot(t)
    /\ planRuns < MaxPlanRuns
    /\ staged_emails(queue, c, req) # << >>
    /\ plan' = [plan EXCEPT ![t] =
                 [pc |-> "write", kind |-> "launch", camp |-> c,
                  todo |-> staged_emails(queue, c, req),
                  dls |-> snapshot_domain_commitments(queue),
                  dct |-> EmptyMap, rr |-> 0,
                  start |-> get_start_time_in_timezone(now),
                  request_data |-> req]]
    /\ planRuns' = planRuns + 1
    /\ UNCHANGED <<now, env, campStatus, campTotal, queue, nextId, stage,
                   wk, rec, hist>>

SubsetQueue ==
    [i \in 1..(SubsetItems + 1) |->
       StagedRow(IF i <= SubsetItems THEN "c1" ELSE "c2")]

InitSubset ==
    /\ now \in StartInstants
    /\ interval = IntervalSecs
    /\ recipients = [c \in Campaigns |-> IF c = "c1" THEN SubsetItems ELSE 1]
    /\ aiDown = FALSE
    /\ DISABLE_WORKING_HOURS = FALSE
    /\ campStatus = [c \in Campaigns |-> "staged"]
    /\ campTotal = recipients
    /\ queue = SubsetQueue
    /\ nextId = SubsetItems + 2
    /\ AllIdle
    /\ hist = [i \in DOMAIN queue |-> NoHist]
    /\ track = FALSE

NextSubset ==
    \/ \E req \in LaunchRequests : LaunchRequestStart("p1", "c1", req)
    \/ PlanWrite("p1")
    \/ PlanFinish("p1")

SpecSubset == InitSubset /\ [][NextSubset]_vars

-----------------------------------------------------------------------------
(* Selection: one worker over emails of two campaigns in any campaign      *)
(* status, each email queued or not, due or not, with or without a body    *)
(* written by the operator; or over a backlog longer than one batch        *)

\* campaigns.status
CampaignStatuses ==
    {"draft", "staged", "scheduled", "sending", "paused", "completed", "cancelled"}

\* an email planned at instant at, then failed or given a body or neither
SelectRow(c, at, st, body) ==
    LET r == PlannedRow(StagedRow(c), "launch", Sender(c), 0, at)
        f == IF st = "failed" THEN mark_failed([k \in {1} |-> r], 1, "Generation Error")[1]
             ELSE r
    IN  update_email([k \in {1} |-> f], 1, body)[1]

\* rows 1 and 2 belong to c1, row 3 to c2
SelectQueues(t, iv) ==
    {[i \in 1..3 |->
        SelectRow(IF i < 3 THEN "c1" ELSE "c2", at[i], st[i], body[i])] :
       at \in [1..3 -> {t, t + iv}],
       st \in [1..3 -> {"queued", "failed"}],
       body \in [1..3 -> {"", "edited"}]}

InitSelect ==
    \/ InitBacklog
    \/ /\ now \in StartInstants
       /\ interval = IntervalSecs
       /\ recipients = [c \in Campaigns |-> IF c = "c1" THEN 2 ELSE 1]
       /\ aiDown = FALSE
       /\ DISABLE_WORKING_HOURS = FALSE
       /\ campStatus \in [Campaigns -> CampaignStatuses]
       /\ campStatus["c2"] \in {"scheduled", "paused"}
       /\ campTotal = recipients
       /\ queue \in SelectQueues(now, interval)
       /\ nextId = 4
       /\ AllIdle
       /\ hist = [i \in DOMAIN queue |-> NoHist]
       /\ track = FALSE

NextSelect ==
    \/ WSelect("w1")
    \/ WClaim("w1")
    \/ WGenerate("w1")
    \/ WTrippedFail("w1")
    \/ \E ok \in BOOLEAN : WSend("w1", ok)

SpecSelect == InitSelect /\ [][NextSelect]_vars

-----------------------------------------------------------------------------
(* Two workers and retry-failed on a queue of two due emails, the first    *)
(* with a body written by the operator: a worker may hold a batch fetched  *)
(* before the other worker failed an email and the retry rescheduled it    *)

EarlyQueue(t, iv) == update_email(LaunchedItems(2, t, iv), 1, "edited")

InitEarly ==
    /\ now \in StartInstants
    /\ interval = IntervalSecs
    /\ recipients = [c \in Campaigns |-> IF c = "c1" THEN 2 ELSE 1]
    /\ aiDown = FALSE
    /\ DISABLE_WORKING_HOURS = FALSE
    /\ campStatus = [c \in Campaigns |-> IF c = "c1" THEN "scheduled" ELSE "draft"]
    /\ campTotal = [c \in Campaigns |-> IF c = "c1" THEN 2 ELSE 0]
    /\ queue = EarlyQueue(now, interval)
    /\ nextId = 3
    /\ AllIdle
    /\ hist = [i \in DOMAIN queue |-> NoHist]
    /\ track = TRUE

NextEarly ==
    \/ \E w \in Workers : WSelect(w)
    \/ \E w \in Workers : WClaim(w)
    \/ \E w \in Workers : WGenerate(w)
    \/ \E w \in Workers, ok \in BOOLEAN : WSend(w, ok)
    \/ RetryStart("p1", "c1")
    \/ PlanWrite("p1")

SpecEarly == InitEarly /\ [][NextEarly]_vars

-----------------------------------------------------------------------------
(* Two stage tasks at once: the operator posts /generate for a campaign    *)
(* while the task of an earlier request, for the same or for the other     *)
(* campaign, is still running; the staged emails are then launched         *)

InitDouble ==
    /\ now \in StartInstants
    /\ interval = IntervalSecs
    /\ recipients \in [Campaigns -> 1..MaxItems]
    /\ aiDown = FALSE
    /\ DISABLE_WORKING_HOURS = FALSE
    /\ campStatus = [c \in Campaigns |-> "draft"]
    /\ campTotal = recipients
    /\ queue = EmptyMap
    /\ nextId = 1
    /\ AllIdle
    /\ hist = EmptyMap
    /\ track = FALSE

NextDouble ==
    \/ \E s \in StageTasks, c \in Campaigns : StageStart(s, c)
    \/ \E s \in StageTasks : StageDelete(s)
    \/ \E s \in StageTasks : StageInsert(s)
    \/ \E s \in StageTasks : StageUpdate(s)
    \/ \E c \in Campaigns : LaunchStart("p1", c)
    \/ PlanWrite("p1")
    \/ PlanFinish("p1")

SpecDouble == InitDouble /\ [][NextDouble]_vars

-----------------------------------------------------------------------------
(* Running dispatchers: two workers whose loops never stop, on the emails  *)
(* of two launched campaigns, the second due one interval after the first; *)
(* the operator writes bodies and pauses, cancels and resumes the second   *)
(* campaign; the clock advances                                            *)

LiveItems == 1..2

InitLive ==
    /\ now \in StartInstants
    /\ interval = IntervalSecs
    /\ recipients = [c \in Campaigns |-> 1]
    /\ aiDown = FALSE
    /\ DISABLE_WORKING_HOURS = FALSE
    /\ campStatus = [c \in Campaigns |-> "scheduled"]
    /\ campTotal = [c \in Campaigns |-> 1]
    /\ queue = LaunchedQueue(now, interval)
    /\ nextId = 3
    /\ AllIdle
    /\ hist = [i \in DOMAIN queue |-> NoHist]
    /\ track = FALSE

\* main_loop: poll, then the loop body of process_email_batch email by email,
\* then the next poll
LiveWorker(w) ==
    \/ WSelect(w)
    \/ WClaim(w)
    \/ WGenerate(w)
    \/ \E ok \in BOOLEAN : WSend(w, ok)

NextLive ==
    \/ \E w \in Workers : LiveWorker(w)
    \/ \E i \in DOMAIN queue : OperatorEditBody(i)
    \/ \E st \in OperatorStatuses : OperatorSetStatus("c2", st)
    \/ Tick

\* each worker's loop goes on (no crash, every call returns) and time passes
SpecLive ==
    /\ InitLive
    /\ [][NextLive]_vars
    /\ \A w \in Workers : WF_vars(LiveWorker(w))
    /\ WF_vars(Tick)

-----------------------------------------------------------------------------
(* A launch that may end early: c1 holds two staged emails, c2 is a draft  *)
(* without any; the store may refuse any write of the launch task, and a   *)
(* worker serves what was queued                                           *)

AbortQueue == [i \in 1..2 |-> StagedRow("c1")]

InitAbort ==
    /\ now \in StartInstants
    /\ interval = IntervalSecs
    /\ recipients = [c \in Campaigns |-> IF c = "c1" THEN 2 ELSE 0]
    /\ aiDown = FALSE
    /\ DISABLE_WORKING_HOURS = FALSE
    /\ campStatus = [c \in Campaigns |-> IF c = "c1" THEN "staged" ELSE "draft"]
    /\ campTotal = recipients
    /\ queue = AbortQueue
    /\ nextId = 3
    /\ AllIdle
    /\ hist = [i \in DOMAIN queue |-> NoHist]
    /\ track = FALSE

NextAbort ==
    \/ \E c \in Campaigns : LaunchStart("p1", c)
    \/ \E c \in Campaigns : LaunchStartEmpty("p1", c)
    \/ PlanReturn("p1")
    \/ PlanWrite("p1")
    \/ PlanAbort("p1")
    \/ PlanFinish("p1")
    \/ WSelect("w1")
    \/ WClaim("w1")
    \/ WGenerate("w1")
    \/ Tick

SpecAbort == InitAbort /\ [][NextAbort]_vars

-----------------------------------------------------------------------------
(* Staging with placeholders: the campaign's subject line holds text and   *)
(* placeholders, and the recipient's row holds any of the keys Zip, zip    *)
(* and ZIP, each with an empty or a non-empty value                        *)

SubjectNames == {"Zip", "zip", "ZIP"}

SubjectValues == {"", "A", "B"}

SubjectPieces == {Text("Hello")} \cup {Placeholder(x) : x \in SubjectNames}

\* subject lines of one or two pieces
SubjectLines ==
    {<<p>> : p \in SubjectPieces} \cup {<<p, q>> : p \in SubjectPieces, q \in SubjectPieces}

\* the rows: the recipient's name and any custom fields of the contact
SubjectRows ==
    {[k \in K \cup {"Name"} |-> IF k = "Name" THEN "rcpt" ELSE f[k]] :
        K \in SUBSET SubjectNames, f \in [SubjectNames -> SubjectValues]}

\* a draft campaign of MaxItems recipients, all with the same custom fields
InitSubject ==
    /\ now \in StartInstants
    /\ interval = IntervalSecs
    /\ recipients = [c \in Campaigns |-> IF c = "c1" THEN MaxItems ELSE 0]
    /\ aiDown = FALSE
    /\ DISABLE_WORKING_HOURS = FALSE
    /\ campStatus = [c \in Campaigns |-> "draft"]
    /\ campTotal = recipients
    /\ queue = EmptyMap
    /\ nextId = 1
    /\ AllIdle
    /\ hist = EmptyMap
    /\ track = FALSE

NextSubject ==
    \/ \E content \in SubjectLines, data \in SubjectRows :
          StageStartWith("s1", "c1", content, data)
    \/ StageDelete("s1")
    \/ StageInsert("s1")
    \/ StageUpdate("s1")

SpecSubject == InitSubject /\ [][NextSubject]_vars

-----------------------------------------------------------------------------
(* A launched campaign that the operator sets back to draft and stages     *)
(* again                                                                   *)

\* after c1 was staged with one recipient and launched at instant t, jitter 0
RestageQueue(t, iv) ==
    [i \in {1} |-> LaunchedQueue(t, iv)[1]]

InitRestage ==
    /\ now \in StartInstants
    /\ interval = IntervalSecs
    /\ recipients = [c \in Campaigns |-> 1]
    /\ aiDown = FALSE
    /\ DISABLE_WORKING_HOURS = FALSE
    /\ campStatus = [c \in Campaigns |-> IF c = "c1" THEN "scheduled" ELSE "draft"]
    /\ campTotal = [c \in Campaigns |-> IF c = "c1" THEN 1 ELSE 0]
    /\ queue = RestageQueue(now, interval)
    /\ nextId = 2
    /\ AllIdle
    /\ hist = [i \in DOMAIN queue |-> NoHist]
    /\ track = FALSE

NextRestage ==
    \/ OperatorSetDraft("c1")
    \/ StageStart("s1", "c1")
    \/ StageDelete("s1")
    \/ StageInsert("s1")
    \/ StageUpdate("s1")
    \/ LaunchStart("p1", "c1")
    \/ PlanWrite("p1")
    \/ PlanFinish("p1")
    \/ WSelect("w1")
    \/ WClaim("w1")
    \/ WGenerateFail("w1")
    \/ \E i \in DOMAIN queue : OperatorEditBody(i)
    \/ \E ok \in BOOLEAN : WSend("w1", ok)
    \/ Tick

SpecRestage == InitRestage /\ [][NextRestage]_vars

-----------------------------------------------------------------------------
(* Claims *)

Rows == DOMAIN queue

(* C1, as stated: every queue item that reaches status sent has had       *)
(* exactly one successful claim during its whole lifetime.                *)
(* Refuted under SpecContend: an item claimed, failed, re-queued by       *)
(* retry-failed and claimed again reaches sent with two claims.           *)
C1_ExactlyOneClaimInLifetime ==
    \A i \in Rows : queue[i].status = "sent" => hist[i].claims = 1

(* C1, amended: every item that reaches sent has had at least one         *)
(* successful claim, and no item is claimed successfully more than once   *)
(* after any one launch or retry-failed write that set it to queued, nor  *)
(* transmitted more often than it was claimed.                            *)
C1_OneClaimPerQueueing ==
    \A i \in Rows :
        /\ hist[i].sinceQueued <= 1
        /\ hist[i].sends <= hist[i].claims
        /\ queue[i].status = "sent" => hist[i].claims >= 1

\* an item launched once, failed, retried once and sent on its second claim
C1_SentAfterRetry ==
    \E i \in Rows :
        /\ queue[i].status = "sent"
        /\ planRuns = 2
        /\ hist[i].retries = 1
        /\ hist[i].claims = 2
        /\ hist[i].sinceQueued = 1
        /\ hist[i].sentCalls = 1

(* C2, as stated: when two workers both select the same due item, exactly *)
(* one claim call returns true, only that worker calls the transmission   *)
(* API, and mark_sent is called exactly once for the item.                *)
(* Refuted under SpecWorkers: when generation or the transmission fails,  *)
(* the item ends failed and mark_sent was never called.                   *)
C2_SentExactlyOnce ==
    \A i \in Rows :
        (hist[i].attempts = 2 /\ queue[i].status \in {"sent", "failed"}) =>
            /\ hist[i].claims = 1
            /\ hist[i].senders \subseteq hist[i].claimers
            /\ hist[i].sentCalls = 1

(* C2, amended: when two workers both select the same due item, exactly   *)
(* one claim call returns true, only that worker calls the transmission   *)
(* API and at most once, and mark_sent is called at most once: exactly    *)
(* once when the transmission succeeds, never when generation or          *)
(* transmission fails.                                                    *)
C2_OneClaimerOneFinalize ==
    \A i \in Rows :
        /\ hist[i].attempts >= 1 => hist[i].claims = 1
        /\ Cardinality(hist[i].claimers) = hist[i].claims
        /\ hist[i].senders \subseteq hist[i].claimers
        /\ hist[i].sends <= 1
        /\ hist[i].sentCalls <= hist[i].sends
        /\ queue[i].status = "sent" <=> hist[i].sentCalls = 1
        /\ queue[i].status = "failed" => hist[i].sentCalls = 0

\* both workers tried to claim one item, one won and sent it
C2_BothTriedOneSent ==
    \E i \in Rows :
        /\ hist[i].attempts = 2
        /\ hist[i].claims = 1
        /\ hist[i].sentCalls = 1
        /\ queue[i].status = "sent"
        /\ \A w \in Workers : wk[w].pc = "idle"

AllowedChanges ==
    {<<"staged", "queued">>, <<"queued", "processing">>, <<"processing", "sent">>,
     <<"processing", "failed">>, <<"failed", "queued">>}

(* C3: in every step of every core operation, in any interleaving, a      *)
(* change of a queue item's status is one of staged->queued,              *)
(* queued->processing, processing->sent, processing->failed,              *)
(* failed->queued.                                                        *)
(* Refuted under SpecContend: the planner writes and the finalize writes  *)
(* are not conditional on the status they expect.                         *)
C3_OnlyAllowedChanges ==
    [][\A i \in Rows \cap DOMAIN queue' :
          queue[i].status # queue'[i].status =>
              <<queue[i].status, queue'[i].status>> \in AllowedChanges]_vars

Active(i) == queue[i].status \in {"queued", "processing"}

Distance(a, b) == IF a >= b THEN a - b ELSE b - a

(* C4: any two distinct queue items with the same domain_index and status *)
(* in {queued, processing}, across all campaigns, whose scheduled_for     *)
(* fall in the same working window, are at least INTERVAL apart, whether  *)
(* the launches ran one after another or overlapped.                      *)
(* Refuted under SpecPlanning by two overlapping launches.                *)
C4_DomainSpacing ==
    \A i, j \in Rows :
        (/\ i # j
         /\ Active(i) /\ Active(j)
         /\ queue[i].domain_index = queue[j].domain_index
         /\ LocalDay(queue[i].scheduled_for) = LocalDay(queue[j].scheduled_for))
        => Distance(queue[i].scheduled_for, queue[j].scheduled_for) >= interval

InWorkingWindow(t) ==
    /\ Weekday(LocalDay(t)) < 5
    /\ WORKING_HOUR_START <= LocalHour(t)
    /\ LocalHour(t) < WORKING_HOUR_END

(* C5: every scheduled_for written by launch or retry-failed, for every   *)
(* launch instant, every INTERVAL and every snapshot of commitments, has  *)
(* a local hour in [WORK_START, WORK_END) on a Monday-Friday day.         *)
(* Refuted under SpecPlanning: a candidate before WORK_START is written   *)
(* as it is.                                                              *)
C5_PlannedInsideWindow ==
    \A i \in Rows :
        queue[i].scheduled_for # NULL => InWorkingWindow(queue[i].scheduled_for)

(* C6: in every reachable state, every queue item whose status is queued, *)
(* processing, sent or failed has non-null scheduled_for, domain_index    *)
(* and from_email.                                                        *)
C6_PlannedFieldsSet ==
    \A i \in Rows :
        queue[i].status \in {"queued", "processing", "sent", "failed"} =>
            /\ queue[i].scheduled_for # NULL
            /\ queue[i].domain_index # NULL
            /\ queue[i].from_email # NoSender

\* an item launched, failed, retried and sent
C6_RetriedItemSent ==
    \E i \in Rows :
        /\ queue[i].status = "sent"
        /\ queue[i].error_message = NoError
        /\ planRuns = 2
        /\ queue[i].from_email = generate_domain_config(Sender(queue[i].camp),
                                                        queue[i].domain_index)

(* C7: in every reachable state, every queue item whose status is staged  *)
(* has null scheduled_for and null domain_index.                          *)
C7_StagedFieldsNull ==
    \A i \in Rows :
        queue[i].status = "staged" =>
            queue[i].scheduled_for = NULL /\ queue[i].domain_index = NULL

\* a launch has read a staged row and is about to write it
C7_StagedRowUnderLaunch ==
    \E t \in PlanTasks :
        /\ plan[t].pc = "write"
        /\ plan[t].kind = "launch"
        /\ Exists(queue, Head(plan[t].todo).id)
        /\ queue[Head(plan[t].todo).id].status = "staged"

(* C8: in every reachable state and for every queue item, sent_at is      *)
(* non-null if and only if the item's status is sent, across finalize,    *)
(* retry-failed and launch writes in any interleaving.                    *)
(* Refuted under SpecContend: a planner write on a row that was sent in   *)
(* the meantime sets it back to queued and leaves sent_at.                *)
C8_SentAtIffSent ==
    \A i \in Rows : (queue[i].sent_at # NULL) <=> (queue[i].status = "sent")

(* C9: in every state in which a campaign is completed, it has zero queue *)
(* items with status queued or processing and at least one with status    *)
(* sent or failed.                                                        *)
(* Refuted under Spec: retry-failed re-queues the failed items of a       *)
(* completed campaign and leaves the campaign completed.                  *)
C9_CompletedIsDrained ==
    \A c \in Campaigns :
        campStatus[c] = "completed" =>
            /\ RowsOf(queue, c, {"queued", "processing"}) = {}
            /\ RowsOf(queue, c, {"sent", "failed"}) # {}

(* C10: the completion check changes a campaign's status only from        *)
(* scheduled or sending to completed; when the status read became paused  *)
(* or cancelled before the write, the write changes nothing.              *)
C10_CheckNeverRegresses ==
    [][(rec.pc = "write" /\ rec'.pc = "idle") =>
          IF campStatus[rec.camp] \in {"scheduled", "sending"}
          THEN \/ campStatus' = campStatus
               \/ campStatus' = [campStatus EXCEPT ![rec.camp] = "completed"]
          ELSE campStatus' = campStatus]_vars

\* the breaker paused the campaign between the check's read and its write,
\* and the write left it paused
C10_StaleCheckLeftPause ==
    /\ rec.pc = "idle"
    /\ rec.ret = "stale"
    /\ rec.seen = "scheduled"
    /\ campStatus["c1"] = "paused"
    /\ \A i \in Rows : queue[i].error_message = "Generation Error"

Launched == {"queued", "processing", "sent", "failed"}

C12_TotalIsOwnedAfterStage ==
    [][\A s \in StageTasks :
          (stage[s].pc = "update" /\ stage'[s].pc = "idle") =>
              campTotal'[stage[s].camp]
                  = Cardinality({i \in DOMAIN queue' : queue'[i].camp = stage[s].camp})]_vars

\* the number of campaign c's items with status st
Count(q, c, st) == Cardinality(RowsOf(q, c, {st}))

(* C13: when the generator fails on every call and one batch holds        *)
(* N > CIRCUIT_BREAKER_THRESHOLD due items of a campaign (N <= BATCH_SIZE),*)
(* the campaign is paused on the failure that brings the batch's count to *)
(* the threshold, and when the batch ends exactly threshold items are     *)
(* failed and the other N - threshold are queued and were never claimed.  *)
C13_BreakerStopsBatch ==
    [][\A w \in Workers :
          /\ (wk[w].pc = "handle" /\ wk'[w].pc = "tripped") =>
                LET c == Head(wk[w].batch).campaign_id
                IN  /\ wk'[w].errs[c] = CIRCUIT_BREAKER_THRESHOLD
                    /\ campStatus'[c] = "paused"
                    /\ Count(queue', c, "failed") = CIRCUIT_BREAKER_THRESHOLD - 1
                    /\ Count(queue', c, "processing") = 1
          /\ (wk[w].paused # {} /\ wk'[w].pc = "idle") =>
                \A c \in wk[w].paused :
                    /\ Count(queue', c, "failed") = CIRCUIT_BREAKER_THRESHOLD
                    /\ Count(queue', c, "queued")
                           = recipients[c] - CIRCUIT_BREAKER_THRESHOLD
                    /\ \A i \in RowsOf(queue', c, {"queued"}) :
                           queue'[i].error_message = NoError]_vars

\* the batch is over: the campaign is paused, threshold items failed, two
\* items still queued
C13_TwoLeftQueued ==
    /\ wk["w1"].pc = "idle"
    /\ campStatus["c1"] = "paused"
    /\ recipients["c1"] > CIRCUIT_BREAKER_THRESHOLD
    /\ recipients["c1"] <= BATCH_SIZE
    /\ Count(queue, "c1", "failed") = CIRCUIT_BREAKER_THRESHOLD
    /\ Count(queue, "c1", "queued") = recipients["c1"] - CIRCUIT_BREAKER_THRESHOLD

(* C14: once the circuit breaker has paused a campaign, the campaign      *)
(* leaves paused only by the operator's status update: no launch, stage,  *)
(* retry-failed or completion check that finishes afterwards moves it out *)
(* of paused, and no worker step does.                                    *)
(* Refuted under SpecInFlight: the launch task that was still running     *)
(* when the breaker tripped ends with its unconditional write of          *)
(* scheduled.                                                             *)
C14_PausedUntilOperator ==
    [][\A c \in Campaigns :
          (campStatus[c] = "paused" /\ campStatus'[c] # "paused") =>
              UNCHANGED <<queue, stage, plan, wk, rec>>]_vars

(* C15: of two launch requests on the same campaign the status            *)
(* precondition lets at most one plan and write: no queue item is         *)
(* assigned by more than one launch.                                      *)
(* Refuted under SpecContend: the status stays staged until the first     *)
(* launch task ends, so the second request is accepted and both tasks     *)
(* write the same item.                                                   *)
C15_OneLaunchPerItem ==
    \A i \in Rows : hist[i].launches <= 1

(* C16: the circuit breaker writes paused only where the campaign still   *)
(* has a status that is neither paused nor terminal: a worker step never  *)
(* replaces completed or cancelled by paused.                             *)
(* Refuted under SpecBreaker: the operator cancels the campaign while the *)
(* batch is running and the breaker then writes paused over cancelled.    *)
C16_BreakerKeepsTerminal ==
    [][\A c \in Campaigns :
          (campStatus[c] \in {"completed", "cancelled"} /\ wk' # wk) =>
              campStatus'[c] = campStatus[c]]_vars

(* C17: with DISABLE_WORKING_HOURS true the planner clamps nothing: the   *)
(* scheduled_for it writes is the launch instant plus jitter for the      *)
(* first email of a domain, and the domain's latest commitment plus       *)
(* INTERVAL plus jitter otherwise, unchanged.                             *)
(* Refuted under SpecUnclamped: the planner never reads the flag and      *)
(* moves the instant to the next working window.                          *)
C17_NoClampWhenDisabled ==
    [][\A t \in PlanTasks :
          (DISABLE_WORKING_HOURS /\ plan[t].pc = "write" /\ plan'[t].pc # "write") =>
              LET p == plan[t]
                  e == Head(p.todo)
                  d == ChooseDomain(e, p.rr)
                  base == IF d \in DOMAIN p.dct THEN p.dct[d] + interval
                          ELSE IF d \in DOMAIN p.dls THEN p.dls[d] + interval
                          ELSE now
              IN  Exists(queue', e.id) =>
                      \E j \in 0..(JITTER_SECONDS_MAX - 1) :
                          queue'[e.id].scheduled_for = base + j]_vars

(* C18: with DISABLE_WORKING_HOURS false a worker starts a batch only     *)
(* when the local time is inside the working window, hour in              *)
(* [WORK_START, WORK_END) on a Monday-Friday day; outside it, after hours *)
(* or on Saturday and Sunday, it claims and sends nothing.                *)
(* Refuted under SpecPolling: the worker's gate tests the hour only, and  *)
(* a batch runs on Saturday 10:00.                                        *)
C18_BatchOnlyInWindow ==
    [][\A w \in Workers :
          (~DISABLE_WORKING_HOURS /\ wk[w].pc = "idle" /\ wk'[w].pc # "idle") =>
              InWorkingWindow(now)]_vars

(* C19: retry-failed has on the failed items the effects of a launch:     *)
(* each becomes queued with domain_index, scheduled_for and from_email    *)
(* assigned and error_message cleared, and when the task ends the         *)
(* campaign has status scheduled.                                         *)
(* Refuted under SpecRetry: retry-failed writes the rows only and leaves  *)
(* the campaign in the status it had.                                     *)
C19_RetryEndsScheduled ==
    [][\A t \in PlanTasks :
          (plan[t].pc = "write" /\ plan[t].kind = "retry" /\ plan'[t].pc = "idle") =>
              LET id == Head(plan[t].todo).id
              IN  /\ Exists(queue', id) =>
                        /\ queue'[id].status = "queued"
                        /\ queue'[id].domain_index # NULL
                        /\ queue'[id].scheduled_for # NULL
                        /\ queue'[id].from_email # NoSender
                        /\ queue'[id].error_message = NoError
                  /\ campStatus'[plan[t].camp] = "scheduled"]_vars

\* the latest commitment a planner task knows on domain d: from its snapshot
\* or from its own earlier writes
Latest(p, d) ==
    Max({p.dls[x] : x \in DOMAIN p.dls \cap {d}} \cup
        {p.dct[x] : x \in DOMAIN p.dct \cap {d}})

(* C20: retry-failed gives every failed item that already carries a       *)
(* domain_index that same index, with a scheduled_for not earlier than    *)
(* the latest commitment on that domain (in the task's snapshot or        *)
(* written earlier in the same run) plus INTERVAL, or not earlier than    *)
(* the floor when the domain has no commitment.                           *)
C20_RetryKeepsDomain ==
    [][\A t \in PlanTasks :
          (/\ plan[t].kind = "retry" /\ plan[t].pc = "write" /\ plan'[t] # plan[t]
           /\ Exists(queue, Head(plan[t].todo).id)
           /\ queue[Head(plan[t].todo).id].domain_index # NULL) =>
              LET p  == plan[t]
                  id == Head(p.todo).id
                  d  == queue[id].domain_index
              IN  /\ queue'[id].domain_index = d
                  /\ queue'[id].scheduled_for >=
                        IF d \in DOMAIN p.dls \cup DOMAIN p.dct
                        THEN Latest(p, d) + interval
                        ELSE p.start]_vars

\* row 2 alone was retried and kept domain 1, on which nothing was committed;
\* row 1 was retried while row 3 held a commitment on domain 0 and follows it
C20_RetriedBehindCommitment ==
    /\ hist[1].retries >= 1
    /\ hist[2].retries > hist[1].retries
    /\ queue[1].status = "queued"
    /\ queue[3].status = "queued"
    /\ queue[1].domain_index = queue[3].domain_index
    /\ queue[1].scheduled_for >= queue[3].scheduled_for + interval
    /\ queue[2].domain_index = 1

\* WORK_END local on the day of instant t
WorkEnd(t) == create_date_in_timezone(LocalDay(t), WORKING_HOUR_END, 0)

(* C21: a launch of n fresh items with no existing commitment, zero       *)
(* jitter and a launch instant inside the working window gives the k-th   *)
(* item (0-based, in created_at order) domain_index = k mod |pool| and    *)
(* scheduled_for = floor + (k div |pool|) * INTERVAL, as long as that     *)
(* instant is before WORK_END.                                            *)
C21_RoundRobinPlan ==
    \A i \in RowsOf(queue, "c1", {"queued"}) :
        LET k  == i - 1
            at == now + (k \div NumDomains) * interval
        IN  /\ queue[i].domain_index = k % NumDomains
            /\ at < WorkEnd(now) => queue[i].scheduled_for = at

\* a launch of two rounds and one email is over: the last email is on domain
\* 0 again, two intervals after the floor
C21_ThirdRoundPlanned ==
    /\ campStatus["c1"] = "scheduled"
    /\ Cardinality(RowsOf(queue, "c1", {"queued"})) = 2 * NumDomains + 1
    /\ queue[2 * NumDomains + 1].domain_index = 0
    /\ queue[2 * NumDomains + 1].scheduled_for = now + 2 * interval
    /\ queue[NumDomains].domain_index = NumDomains - 1
    /\ queue[NumDomains].scheduled_for = now

\* the local date is a Saturday or a Sunday, or the local hour is at or after
\* WORK_END
OutsideWindow(t) ==
    \/ Weekday(LocalDay(t)) \in {5, 6}
    \/ LocalHour(t) >= WORKING_HOUR_END

\* WORK_START local on the first Monday-Friday day strictly after t's local date
NextWindowStart(t) ==
    LET day == CHOOSE d \in (LocalDay(t) + 1)..(LocalDay(t) + 3) :
                   /\ Weekday(d) \notin {5, 6}
                   /\ \A x \in (LocalDay(t) + 1)..(d - 1) : Weekday(x) \in {5, 6}
    IN  (day * DaySecs + WORKING_HOUR_START * HourSecs) - UtcOffsetSecs

\* what the claim says of an instant outside or inside the window
Clamped(t, r) ==
    /\ OutsideWindow(t) => r = NextWindowStart(t)
    /\ InWorkingWindow(t) => r = t

(* C22: a candidate instant, or the launch-time now used as floor, whose  *)
(* local time is on Saturday or Sunday or at or after WORK_END is         *)
(* replaced by WORK_START local on the first Monday-Friday day strictly   *)
(* after its local date; a candidate inside the window is returned        *)
(* unchanged.                                                             *)
C22_ClampToNextWindow ==
    [][\A t \in PlanTasks :
          /\ (plan[t].pc = "idle" /\ plan'[t].pc = "write") =>
                Clamped(now, plan'[t].start)
          /\ (plan[t].pc = "write" /\ plan'[t] # plan[t]) =>
                LET p    == plan[t]
                    id   == Head(p.todo).id
                    d    == queue'[id].domain_index
                    base == IF d \in DOMAIN p.dct THEN p.dct[d] + interval
                            ELSE IF d \in DOMAIN p.dls THEN p.dls[d] + interval
                            ELSE p.start
                IN  \E j \in 0..(JITTER_SECONDS_MAX - 1) :
                        Clamped(base + j, queue'[id].scheduled_for)]_vars

\* launched on Monday 16:58: the first email is planned at once, the second,
\* one interval later, on Tuesday 09:00
C22_RolledToTuesday ==
    /\ now = create_date_in_timezone(7, 16, 58 * 60)
    /\ queue[1].status = "queued"
    /\ queue[1].scheduled_for = now
    /\ queue[2].status = "queued"
    /\ queue[2].scheduled_for = create_date_in_timezone(8, 9, 0)

\* the rows a step changed
Changed == {i \in DOMAIN queue : i \notin DOMAIN queue' \/ queue'[i] # queue[i]}

(* C23: within one dispatcher process a batch selects at most BATCH_SIZE  *)
(* items, all due and queued, in non-decreasing created_at order, and the *)
(* worker claims and handles them one at a time in that order: each of    *)
(* its steps touches only the head of what is left of its batch and then  *)
(* either stays on it or moves to the next.                               *)
C23_BatchInCreationOrder ==
    [][\A w \in Workers :
          /\ (wk[w].pc = "idle" /\ wk'[w].pc # "idle") =>
                LET b == wk'[w].batch
                IN  /\ Len(b) <= BATCH_SIZE
                    /\ \A k \in 1..Len(b) :
                          /\ queue[b[k].id].status = "queued"
                          /\ queue[b[k].id].scheduled_for <= now
                    /\ \A k \in 1..(Len(b) - 1) :
                          created_at(b[k].id) <= created_at(b[k + 1].id)
          /\ (wk[w].pc # "idle" /\ wk'[w] # wk[w]) =>
                /\ Changed \subseteq {Head(wk[w].batch).id}
                /\ \/ wk'[w].batch = wk[w].batch
                   \/ wk'[w].batch = Tail(wk[w].batch)
                   \/ wk'[w] = IdleWorker /\ Len(wk[w].batch) = 1]_vars

\* a worker holds a full batch while two more due emails wait
C23_FullBatchSelected ==
    /\ Len(wk["w1"].batch) = BATCH_SIZE
    /\ wk["w1"].pc = "claim"
    /\ Cardinality({i \in Rows : queue[i].status = "queued"
                                   /\ queue[i].scheduled_for <= now}) = BATCH_SIZE + 2

\* worker w leaves, in this step, the item it had claimed
MovesOn(w) == wk[w].pc = "handle" /\ wk'[w].pc # "handle"

(* C24: a failure while handling one item of a batch never stops the      *)
(* batch, the worker goes on with the next selected item, and every item  *)
(* that was claimed and whose handling failed (no mark_sent was issued    *)
(* for it) is left with status failed and a non-null error_message.       *)
(* Refuted under SpecFaulty: when the update of mark_failed fails as      *)
(* well, the item is left in processing without an error message.         *)
C24_FailureRecordedBatchGoesOn ==
    [][\A w \in Workers :
          /\ (wk[w].pc = "claim" /\ wk'[w] # wk[w] /\ wk'[w].pc # "handle") =>
                wk'[w] = Advance(w, wk'[w].errs, wk'[w].paused)
          /\ MovesOn(w) =>
                LET id == Head(wk[w].batch).id
                IN  /\ wk'[w].pc = "tripped" \/
                           wk'[w] = Advance(w, wk'[w].errs, wk'[w].paused)
                    /\ hist'[id].sentCalls = hist[id].sentCalls =>
                          /\ queue'[id].status = "failed"
                          /\ queue'[id].error_message # NoError]_vars

\* the email a dead worker was holding
Orphan(w) == Head(wk[w].batch).id

\* C25: an email left in processing by a worker that died before writing a
\* terminal status stays in processing in every later state: no step of the
\* other worker, of a launch, retry-failed or stage task or of the completion
\* check changes its status or sends it again
C25_OrphanStaysProcessing ==
    [][\A w \in Workers :
          (/\ wk[w].pc = "crashed"
           /\ Exists(queue, Orphan(w))
           /\ queue[Orphan(w)].status = "processing") =>
              /\ Exists(queue', Orphan(w))
              /\ queue'[Orphan(w)].status = "processing"
              /\ hist'[Orphan(w)].sends = hist[Orphan(w)].sends]_vars

\* the worker holds an email it claimed
Holding(w) == wk[w].pc \in {"handle", "tripped"}

\* C26: every claim a worker obtained is followed, before that worker handles
\* the next email, by one finalize of that email to sent or failed: the worker
\* never moves on leaving the email in processing, also when a write to the
\* store fails
C26_ClaimAlwaysFinalized ==
    [][\A w \in Workers :
          (Holding(w) /\ ~Holding(w)' /\ wk'[w].pc # "crashed") =>
              LET id == Head(wk[w].batch).id
              IN  /\ queue[id].status = "processing"
                  /\ queue'[id].status \in {"sent", "failed"}]_vars

\* the email worker w is handling, and its campaign
Current(w) == Head(wk[w].batch)

\* the loop body ran the generation for the email of w and no body was saved
GenerationFailed(w) ==
    /\ wk[w].pc = "handle"
    /\ wk[w].body = ""
    /\ wk'[w] # wk[w]
    /\ queue'[Current(w).id].body = ""

\* the generation for the email of w succeeded and its body was saved
GenerationSucceeded(w) ==
    /\ wk[w].pc = "handle"
    /\ wk[w].body = ""
    /\ queue'[Current(w).id].body # ""

\* the loop body called the transmission API for the email of w
Transmitted(w) ==
    /\ wk[w].pc = "handle"
    /\ wk[w].body # ""
    /\ wk'[w] # wk[w]

\* the emails of campaign c that failed in generation
GenerationFailures(q, c) ==
    {i \in RowsOf(q, c, {"failed"}) : q[i].error_message = "Generation Error"}

\* C27: the circuit breaker pauses a campaign only on a generation failure
\* that is at least the CIRCUIT_BREAKER_THRESHOLD-th of that campaign in the
\* batch since its last generation success; the counter is zero when a batch
\* starts, grows by one on a generation failure of the campaign and on
\* nothing else, is zero after a generation success, and a transmission
\* failure never increases it
C27_BreakerCountsOneBatch ==
    [][\A w \in Workers, c \in Campaigns :
          /\ (campStatus[c] # "paused" /\ campStatus'[c] = "paused") =>
                 \E v \in Workers :
                    /\ GenerationFailed(v)
                    /\ Current(v).campaign_id = c
                    /\ wk[v].errs[c] + 1 >= CIRCUIT_BREAKER_THRESHOLD
                    /\ Cardinality(GenerationFailures(queue, c)) + 1 >=
                           CIRCUIT_BREAKER_THRESHOLD
          /\ (wk[w].pc = "idle" /\ wk'[w].pc # "idle") => wk'[w].errs[c] = 0
          /\ wk'[w].errs[c] > wk[w].errs[c] =>
                 /\ GenerationFailed(w)
                 /\ Current(w).campaign_id = c
                 /\ wk'[w].errs[c] = wk[w].errs[c] + 1
          /\ (GenerationSucceeded(w) /\ Current(w).campaign_id = c) =>
                 wk'[w].errs[c] = 0
          /\ Transmitted(w) => wk'[w].errs[c] <= wk[w].errs[c]]_vars

\* the breaker has just paused the campaign in a batch whose first email,
\* written by the operator, was sent
C27_TrippedAfterSuccess ==
    /\ wk["w1"].pc = "tripped"
    /\ wk["w1"].errs["c1"] = CIRCUIT_BREAKER_THRESHOLD
    /\ campStatus["c1"] = "paused"
    /\ queue[1].status = "sent"
    /\ Cardinality(GenerationFailures(queue, "c1")) = CIRCUIT_BREAKER_THRESHOLD - 1

\* the transmission API reported a failure for the email of w
TransmissionFailed(w) ==
    /\ Transmitted(w)
    /\ hist'[Current(w).id].sentCalls = hist[Current(w).id].sentCalls

\* C28: when the transmission API reports a failure for a claimed email, the
\* email ends with status failed and the batch's failure counter of its
\* campaign is zero afterwards, whether or not the generation ran for the
\* email in this batch
C28_TransmissionFailureResets ==
    [][\A w \in Workers :
          TransmissionFailed(w) =>
              /\ queue'[Current(w).id].status = "failed"
              /\ wk'[w].errs[Current(w).campaign_id] = 0]_vars

\* the stage task s ends with this step
StageCompletes(s) == stage[s].pc \in {"update", "return"} /\ stage'[s].pc = "idle"

\* C29: when a stage run on a campaign in draft or staged completes, the
\* campaign's staged items are exactly the items this run created, one per
\* attached recipient, and no staged item that existed before the run is
\* left; this holds for every recipient list, the empty one included
C29_StagedAreThisRuns ==
    [][\A s \in StageTasks :
          StageCompletes(s) =>
              LET c == stage[s].camp
              IN  /\ RowsOf(queue', c, {"staged"}) =
                         (nextId' - recipients[c]) .. (nextId' - 1)
                  /\ Cardinality(RowsOf(queue', c, {"staged"})) = recipients[c]]_vars

\* C30: when a worker claims an email with an empty body and the AI generator,
\* the template renderer, the body save and the transmission API all succeed,
\* the email ends the batch with status sent, a sent_at and a non-empty
\* persisted body
C30_EmptyBodyRenderedAndSent ==
    [][\A w \in Workers :
          (Holding(w) /\ ~Holding(w)' /\ Current(w).body = "") =>
              /\ queue'[Current(w).id].status = "sent"
              /\ queue'[Current(w).id].sent_at # NULL
              /\ queue'[Current(w).id].body # ""]_vars

\* the launch task t writes, in this step, the email at the head of its list
LaunchWrites(t) ==
    /\ plan[t].pc = "write"
    /\ plan[t].kind = "launch"
    /\ plan'[t] # plan[t]

\* C31: every fresh email planned by a launch is assigned a scheduled_for at
\* or after the floor, the launch instant clamped to the working window,
\* whatever the commitments of the snapshot and however old the latest
\* commitment on the email's domain
C31_PlannedFromFloor ==
    [][\A t \in PlanTasks :
          LaunchWrites(t) =>
              LET id == Head(plan[t].todo).id
              IN  /\ plan[t].start >= now
                  /\ queue'[id].scheduled_for >= plan[t].start]_vars

\* the emails of c1 that the run has planned so far, and the commitments
\* that the other campaign held when the run started
OrderPlanned == RowsOf(queue, "c1", {"queued"})

OrderHeld == RowsOf(queue, "c2", {"queued", "processing"})

(* C32: within one planner run, launch or retry-failed, the scheduled_for  *)
(* values assigned to emails of one domain_index are strictly increasing  *)
(* in input order, and each is later than the latest commitment that the  *)
(* domain had in the snapshot taken at the start of the run.              *)
C32_DomainStrictlyIncreasing ==
    \A i \in OrderPlanned :
        /\ \A j \in OrderPlanned :
              (i < j /\ queue[i].domain_index = queue[j].domain_index) =>
                  queue[i].scheduled_for < queue[j].scheduled_for
        /\ \A k \in OrderHeld :
              queue[k].domain_index = queue[i].domain_index =>
                  queue[k].scheduled_for < queue[i].scheduled_for

\* a run is over that planned two emails on domain 0 behind the commitment
\* of the other campaign, the second one rolled to the next working day
C32_TwoOnDomainPlanned ==
    /\ plan["p1"].pc = "idle"
    /\ planRuns = 1
    /\ \E i, j \in OrderPlanned, k \in OrderHeld :
          /\ i < j
          /\ queue[i].domain_index = 0
          /\ queue[j].domain_index = 0
          /\ queue[k].domain_index = 0
          /\ LocalDay(queue[j].scheduled_for) > LocalDay(queue[i].scheduled_for)
          /\ LocalDay(queue[i].scheduled_for) >= LocalDay(queue[k].scheduled_for)

\* a launch task is running on a request that names a subset
SubsetLaunch(t) ==
    /\ plan[t].pc \in {"write", "finish"}
    /\ plan[t].kind = "launch"
    /\ ~plan[t].request_data.all
    /\ plan[t].request_data.given

\* a staged row with nothing planned
Unplanned(i) ==
    /\ queue[i].status = "staged"
    /\ queue[i].scheduled_for = NULL
    /\ queue[i].domain_index = NULL
    /\ queue[i].from_email = NoSender

(* C33: a launch given a subset of identifiers (all = false) plans exactly *)
(* the staged items of the campaign whose ids are in the subset, for       *)
(* every subset, the empty one included; every other item keeps its        *)
(* status and its null scheduling fields.                                  *)
C33_PlansExactlySubset ==
    \A t \in PlanTasks :
        SubsetLaunch(t) =>
            \A i \in Rows :
                LET named == /\ i \in plan[t].request_data.emailIds
                             /\ queue[i].camp = plan[t].camp
                IN  /\ ~named => Unplanned(i)
                    /\ (named /\ plan[t].pc = "finish") =>
                           queue[i].status = "queued"

\* C33 for the requests that name at least one identifier
C33_PlansNonEmptySubset ==
    \A t \in PlanTasks :
        (SubsetLaunch(t) /\ plan[t].request_data.emailIds # {}) =>
            \A i \in Rows :
                LET named == /\ i \in plan[t].request_data.emailIds
                             /\ queue[i].camp = plan[t].camp
                IN  /\ ~named => Unplanned(i)
                    /\ (named /\ plan[t].pc = "finish") =>
                           queue[i].status = "queued"

\* worker w holds a claimed email that it fetched with a body, and takes
\* its next step
HandlesWritten(w) ==
    /\ wk[w].pc = "handle"
    /\ wk[w].body # ""
    /\ wk'[w] # wk[w]

(* C34: for a claimed item whose body is non-empty the dispatcher calls    *)
(* neither the AI generator nor the renderer: it hands that body to the    *)
(* transmission API at once, leaving the stored body and the batch's       *)
(* failure counter as they were.                                           *)
C34_WrittenBodySentAsIs ==
    [][\A w \in Workers :
          HandlesWritten(w) =>
              LET id == Head(wk[w].batch).id
              IN  /\ queue'[id].body = queue[id].body
                  /\ queue[id].body = wk[w].body
                  /\ hist'[id].sends = hist[id].sends + 1
                  /\ queue'[id].error_message # "Generation Error"
                  /\ wk'[w].pc # "idle" => wk'[w].errs = wk[w].errs
                  /\ wk'[w].paused = wk[w].paused
                  /\ campStatus' = campStatus]_vars

\* after one failed generation, the email with the operator's body was sent
\* as written and the batch goes on with its counter still at one
C34_WrittenSentCounterKept ==
    \E w \in Workers :
        /\ wk[w].pc = "claim"
        /\ Head(wk[w].batch).id = 3
        /\ wk[w].errs["c1"] = 1
        /\ queue[1].status = "failed"
        /\ queue[2].status = "sent"
        /\ queue[2].body = "edited"
        /\ hist[2].sends = 1
        /\ hist[2].senders = {w}

\* the emails that are queued, due, and of a campaign that is not paused
DueNow ==
    {i \in Rows : /\ queue[i].status = "queued"
                  /\ queue[i].scheduled_for # NULL
                  /\ queue[i].scheduled_for <= now
                  /\ campStatus[queue[i].camp] # "paused"}

\* the poll of worker w returns exactly the oldest BATCH_SIZE emails of DueNow
SelectsDue(w) ==
    (wk[w].pc = "idle" /\ wk'[w].pc = "claim") =>
        LET S == {wk'[w].batch[k].id : k \in DOMAIN wk'[w].batch}
        IN  /\ S \subseteq DueNow
            /\ Cardinality(S) = Len(wk'[w].batch)
            /\ Cardinality(S) = IF Cardinality(DueNow) <= BATCH_SIZE
                                 THEN Cardinality(DueNow) ELSE BATCH_SIZE
            /\ \A i \in S, j \in DueNow \ S : created_at(i) < created_at(j)
            /\ \A k \in DOMAIN wk'[w].batch :
                  k > 1 => created_at(wk'[w].batch[k - 1].id)
                              < created_at(wk'[w].batch[k].id)

\* the campaign statuses, other than the launched ones, that do not exclude
NotExcluding == {"cancelled", "completed", "draft", "staged"}

\* the email that worker w claimed, of a campaign in one of these statuses,
\* reaches the transmission API
ClaimedIsTransmitted(w) ==
    (/\ wk[w].pc \in {"handle", "tripped"}
     /\ wk'[w] # wk[w]
     /\ campStatus[Head(wk[w].batch).campaign_id] \in NotExcluding) =>
        LET id == Head(wk[w].batch).id
        IN  \/ queue'[id].status = "sent"
            \/ /\ queue'[id].status = "failed"
               /\ queue'[id].error_message \in {"SparkPost API Error", "Sending Error"}

(* C35: selection returns an item if and only if its status is queued,    *)
(* its scheduled_for is at or before now and its campaign is not paused   *)
(* (the first BATCH_SIZE by created_at); paused is the only campaign      *)
(* status that excludes, so a due queued item of a cancelled, completed,  *)
(* draft or staged campaign is selected, claimed and sent.                *)
C35_DueOfAnyStatusSent ==
    [][\A w \in Workers : SelectsDue(w) /\ ClaimedIsTransmitted(w)]_vars

\* the first half of C35 alone: what a poll returns
C35_SelectionExact ==
    [][\A w \in Workers : SelectsDue(w)]_vars

\* the second half of C35 for the emails fetched with a body
C35_WrittenOfAnyStatusSent ==
    [][\A w \in Workers :
          wk[w].body # "" => ClaimedIsTransmitted(w)]_vars

\* a due email of a cancelled campaign, its body written by the operator,
\* was sent
C35_CancelledSent ==
    /\ campStatus["c1"] = "cancelled"
    /\ queue[1].status = "sent"
    /\ queue[1].body = "edited"

\* worker w hands the email it holds to the transmission API in this step
Transmits(w) ==
    /\ wk[w].pc = "handle"
    /\ wk[w].body # ""
    /\ hist'[Head(wk[w].batch).id].sends = hist[Head(wk[w].batch).id].sends + 1

(* C36: no item is handed to the transmission API at an instant earlier   *)
(* than the scheduled_for it carries at that instant, in every            *)
(* interleaving of several workers with retry-failed, an item selected as *)
(* due, failed by another worker and rescheduled by retry-failed          *)
(* included.                                                              *)
C36_NeverSentBeforeSchedule ==
    [][\A w \in Workers :
          Transmits(w) =>
              queue[Head(wk[w].batch).id].scheduled_for <= now]_vars

\* C36 without retry-failed: the emails sent were fetched as due and their
\* scheduled_for did not change since
C36_SentAsFetched ==
    [][\A w \in Workers :
          (Transmits(w) /\ hist[Head(wk[w].batch).id].retries = 0) =>
              queue[Head(wk[w].batch).id].scheduled_for <= now]_vars

(* C37: in every reachable state a campaign has at most one staged item   *)
(* per attached recipient, including when two Generate tasks for the same *)
(* campaign overlap.                                                      *)
C37_OneStagedPerRecipient ==
    \A c \in Campaigns :
        Cardinality(RowsOf(queue, c, {"staged"})) <= recipients[c]

\* email i is queued and its scheduled_for is reached
DueQueued(i) ==
    /\ queue[i].status = "queued"
    /\ queue[i].scheduled_for # NULL
    /\ queue[i].scheduled_for <= now

Unwritten(t) == {plan[t].todo[k].id : k \in DOMAIN plan[t].todo}

\* the campaign status is written only by the last step of a launch task,
\* once it has written every row it was to plan
StatusAfterRows ==
    \A c \in Campaigns :
        campStatus'[c] # campStatus[c] =>
            \E t \in PlanTasks :
                /\ plan[t].pc = "finish"
                /\ plan[t].camp = c
                /\ Unwritten(t) = {}
                /\ RowsOf(queue, c, {"staged"}) = {}
                /\ campStatus'[c] = "scheduled"

\* a task that found no staged row writes nothing
EmptyWritesNothing ==
    \A t \in PlanTasks :
        (plan'[t] # plan[t] /\ "return" \in {plan[t].pc, plan'[t].pc}) =>
            queue' = queue /\ campStatus' = campStatus /\ campTotal' = campTotal

\* a task that aborted leaves the campaign status as it found it, the rows it
\* wrote planned and served, and the rows it did not reach staged
AbortKeepsWritten ==
    \A t \in PlanTasks :
        /\ (plan[t].pc # "aborted" /\ plan'[t].pc = "aborted") =>
               queue' = queue /\ campStatus' = campStatus
        /\ plan'[t].pc = "aborted" =>
               /\ campStatus'[plan'[t].camp] = "staged"
               /\ \A i \in DOMAIN queue' :
                     queue'[i].camp = plan'[t].camp =>
                        IF i \in Unwritten(t)'
                        THEN queue'[i].status = "staged"
                        ELSE /\ queue'[i].status \in {"queued", "processing", "failed", "sent"}
                             /\ queue'[i].scheduled_for # NULL
                             /\ (queue'[i].status = "queued" /\ queue'[i].scheduled_for <= now')
                                   => get_queued_emails(queue', campStatus', now', BATCH_SIZE) # << >>

(* C39: a launch writes the campaign status scheduled only after it has   *)
(* written every planned item; if it finds no staged item it changes      *)
(* neither items nor campaign; if it aborts partway, the items already    *)
(* written stay queued, and are dispatched, while the campaign status is  *)
(* left as it was.                                                        *)
C39_LaunchEndsConsistently ==
    [][StatusAfterRows /\ EmptyWritesNothing /\ AbortKeepsWritten]_vars

\* the launch aborted after its first row: a worker has claimed that row
\* while the campaign is still staged and the second row still staged
C39_AbortedHalfServed ==
    /\ plan["p1"].pc = "aborted"
    /\ campStatus["c1"] = "staged"
    /\ queue[1].status \in {"processing", "failed"}
    /\ queue[2].status = "staged"
    /\ planRuns = 1

\* what a placeholder becomes: the value of the first of its exact,
\* lowercase and uppercase spellings that is a key of the row, the
\* placeholder itself when none is
Substituted(piece, data) ==
    IF piece.v \in DOMAIN data THEN Text(data[piece.v])
    ELSE IF Lower(piece.v) \in DOMAIN data THEN Text(data[Lower(piece.v)])
    ELSE IF Upper(piece.v) \in DOMAIN data THEN Text(data[Upper(piece.v)])
    ELSE piece

\* the rows that the stage task s has just inserted
Inserted(s) ==
    IF stage[s].pc = "update" THEN RowsOf(queue, stage[s].camp, {"staged"}) ELSE {}

(* C40: subject substitution at staging replaces every {{Var}}            *)
(* placeholder whose key is present in the recipient mapping under its    *)
(* exact, lowercase or uppercase spelling, probed in that order, by the   *)
(* mapped value, for every mapped value including the empty string, and   *)
(* leaves the placeholder unchanged only when none of the three keys is   *)
(* present.                                                               *)
C40_PlaceholdersSubstituted ==
    \A s \in StageTasks : \A i \in Inserted(s) :
        /\ Len(queue[i].subject) = Len(stage[s].subject_line)
        /\ \A k \in DOMAIN stage[s].subject_line :
              LET piece == stage[s].subject_line[k]
              IN  queue[i].subject[k] =
                     IF piece.kind = "var" THEN Substituted(piece, stage[s].row)
                     ELSE piece

\* C40 for the rows in which no value of the three keys is empty
C40_NonEmptySubstituted ==
    \A s \in StageTasks : \A i \in Inserted(s) :
        (\A x \in DOMAIN stage[s].row : stage[s].row[x] # "") =>
            \A k \in DOMAIN stage[s].subject_line :
                LET piece == stage[s].subject_line[k]
                IN  queue[i].subject[k] =
                       IF piece.kind = "var" THEN Substituted(piece, stage[s].row)
                       ELSE piece

====
